---- MODULE Spec2Model ----
(***************************************************************************)
(* A model of MCP-Builder (mcp_builder): the repository walker, the GitHub *)
(* clone-and-ingest path, the reasoning engines and their factory, the     *)
(* command line surface and the MCP document save/load round trip.         *)
(*                                                                         *)
(* Each component has its own variables and its own specification          *)
(* (SpecClone, SpecEngine, ...).  All components start in one common,      *)
(* deterministic initial state; a specification moves the variables of     *)
(* its own component only.                                                 *)
(***************************************************************************)
EXTENDS Integers, Sequences, FiniteSets, TLC

VARIABLES
    \* ---- ingestion/walker.py ingest_github_repository + github/cloner.py
    ghPc,           \* position inside ingest_github_repository
    ghUrl,          \* the github_url argument (its shape)
    tempDirs,       \* scratch directories that exist on disk (ids)
    target_dir,     \* clone_repository's local: the directory it made
    clone_path,     \* ingest_github_repository's local, NoDir until assigned
    ghExc,          \* the exception in flight, "none" if there is none
    ghResult,       \* how the last call ended: "none" | "snapshot" | "raised"
    ghFilesLeft,    \* files of the clone still to be read by collect_files
    ghIngestDone,   \* ingest_local_repository has returned in this call
    ghCalls,        \* number of calls made so far
    \* ---- intelligence/*: one reason(signals, content) call of an engine
    enEngine,       \* the engine whose reason() ran last, None before any
    enBackend,      \* what the engine's backend did during that call
    enExc,          \* the exception raised inside reason()'s try, "none" if none
    enOutcome,      \* "none" | "returned" | "raised"
    enInsights,     \* the Insights returned, NoInsights when nothing was returned
    \* ---- intelligence/factory.py: one create_reasoning_engine call
    environ,        \* os.environ: OPENAI_API_KEY and ANTHROPIC_API_KEY (None = unset)
    installed,      \* the optional packages installed in the Python environment
    faArgs,         \* the arguments and the user's answers of the call, NoArgs before it
    faResult,       \* what the call did: [outcome, exc, engine, api_key], NoResult before it
    \* ---- cli/main.py: one run of the command line program
    GITHUB_TOKEN,   \* the environment variable, None when unset
    cliArgs,        \* the subcommand, its arguments and what its collaborators do
    cliOut,         \* what the run did: [printed (by cli/main.py), exit, uncaught, trace, written]
    \* ---- ingestion/walker.py: collect_files over one directory tree
    wkRoot,         \* the root path as a sequence of parts, NoRoot before it is chosen
    wkListing,      \* root.rglob('*'): the entries below the root, in enumeration order
    wkFiles,        \* the list collect_files returned, NotCollected before the call
    \* ---- mcp/generator.py: generate_mcp, save_mcp, load_mcp
    mcDoc,          \* the MCP object generate_mcp returned, NoDoc before the call
    mcFile,         \* the YAML text save_mcp wrote, NoFile before the call
    mcLoaded,       \* what load_mcp did: [outcome, mcp], NotLoaded before the call
    mcEdit,         \* what was changed in the file by hand after it was saved, NoEdit if nothing
    mcValidated,    \* what validate(mcp_path) did: [printed, exit, ...], NoOut before the call
    \* ---- analyzers/signals.py: extract_signals over one snapshot
    sgFiles,        \* snapshot.files, in the order the walker returned them
    sgCommits,      \* snapshot.recent_commits, newest first
    sgFirst,        \* what extract_signals returned, NoSignals before the call
    sgSecond,       \* what a second extract_signals on the same snapshot returned
    \* ---- github/client.py and github/models.py: one GitHubClient
    gmUrl,          \* the github_url argument, NoUrl before the first call
    gmParsed,       \* what parse_github_url(gmUrl) did
    gmServer,       \* what the API answers to the three fetches
    gmMetrics,      \* what get_repository_metrics did, or a GitHubMetrics built directly
    gmActivity,     \* what the activity_level property returned, NotRead before it is read
    \* ---- ingestion/walker.py: one ingest_local_repository call
    ilRoot,         \* what repo_path names: nothing, a file, or a directory and its history
    ilSnapshot,     \* what ingest_local_repository did, NotIngested before the call
    \* ---- intelligence/selector.py: one select_content call
    scFiles,        \* snapshot.files: the contents, in the order collect_files returned them
    scOut,          \* what select_content returned, NotSelected before the call
    \* ---- mcp/generator.py: infer_project_name in runs over one repository content
    pnFiles,        \* snapshot.files: name and content, in the order collect_files returned them
    pnRuns,         \* the runs made on that content: root directory name and project_name
    \* ---- intelligence/local_llm.py: one SimpleLLMReasoningEngine.reason call
    rbWords,        \* the phrases of the content given to the rule-based engine
    rbInsights      \* what SimpleLLMReasoningEngine.reason returned, NotReasoned before the call

ghVars == <<ghPc, ghUrl, tempDirs, target_dir, clone_path, ghExc, ghResult,
            ghFilesLeft, ghIngestDone, ghCalls>>

enVars == <<enEngine, enBackend, enExc, enOutcome, enInsights>>

faVars == <<environ, installed, faArgs, faResult>>

cliVars == <<GITHUB_TOKEN, cliArgs, cliOut>>

wkVars == <<wkRoot, wkListing, wkFiles>>

mcVars == <<mcDoc, mcFile, mcLoaded, mcEdit, mcValidated>>

sgVars == <<sgFiles, sgCommits, sgFirst, sgSecond>>

gmVars == <<gmUrl, gmParsed, gmServer, gmMetrics, gmActivity>>

ilVars == <<ilRoot, ilSnapshot>>

scVars == <<scFiles, scOut>>

pnVars == <<pnFiles, pnRuns>>

rbVars == <<rbWords, rbInsights>>

vars == <<ghVars, enVars, faVars, cliVars, wkVars, mcVars, sgVars, gmVars, ilVars, scVars, pnVars, rbVars>>

\* The variables of the other components, which a component's actions leave alone.
ghOthers == <<enVars, faVars, cliVars, wkVars, mcVars, sgVars, gmVars, ilVars, scVars, pnVars, rbVars>>
enOthers == <<ghVars, faVars, cliVars, wkVars, mcVars, sgVars, gmVars, ilVars, scVars, pnVars, rbVars>>
faOthers == <<ghVars, enVars, cliVars, wkVars, mcVars, sgVars, gmVars, ilVars, scVars, pnVars, rbVars>>
cliOthers == <<ghVars, enVars, faVars, wkVars, mcVars, sgVars, gmVars, ilVars, scVars, pnVars, rbVars>>
wkOthers == <<ghVars, enVars, faVars, cliVars, mcVars, sgVars, gmVars, ilVars, scVars, pnVars, rbVars>>
mcOthers == <<ghVars, enVars, faVars, cliVars, wkVars, sgVars, gmVars, ilVars, scVars, pnVars, rbVars>>
sgOthers == <<ghVars, enVars, faVars, cliVars, wkVars, mcVars, gmVars, ilVars, scVars, pnVars, rbVars>>
gmOthers == <<ghVars, enVars, faVars, cliVars, wkVars, mcVars, sgVars, ilVars, scVars, pnVars, rbVars>>
ilOthers == <<ghVars, enVars, faVars, cliVars, wkVars, mcVars, sgVars, gmVars, scVars, pnVars, rbVars>>
scOthers == <<ghVars, enVars, faVars, cliVars, wkVars, mcVars, sgVars, gmVars, ilVars, pnVars, rbVars>>
pnOthers == <<ghVars, enVars, faVars, cliVars, wkVars, mcVars, sgVars, gmVars, ilVars, scVars, rbVars>>
rbOthers == <<ghVars, enVars, faVars, cliVars, wkVars, mcVars, sgVars, gmVars, ilVars, scVars, pnVars>>

None == "None"

\* A scratch directory is named <<n>>; NoDir is a local that names none
\* (target_dir before mkdtemp, clone_path while not in locals()).
NoDir == <<>>

(***************************************************************************)
(* Bounds                                                                  *)
(***************************************************************************)
MaxCalls == 3        \* calls of ingest_github_repository in one process
MaxCloneFiles == 2   \* files in a cloned repository
MaxTokens == 3       \* pieces of text in a hosted backend's response
MaxLines == 2        \* lines in a local model's generated text
MaxEntries == 3      \* entries below the root of a walked directory
MaxSnapshotFiles == 3 \* files in a snapshot given to extract_signals
MaxHistory == 11      \* commits on the checked-out branch of an ingested directory
MaxSelectFiles == 3   \* files in a snapshot given to select_content
MaxNameFiles == 2     \* files in a snapshot given to infer_project_name
MaxRuns == 2          \* runs over the same repository content
MaxPhrases == 3       \* phrases in a content given to the rule-based engine

(***************************************************************************)
(* ingest_github_repository (walker.py 132-157) and GitHubCloner           *)
(***************************************************************************)
\* Shapes of a URL that contains "github.com": one that a pattern of
\* parse_github_url matches, and one that none matches
\* (e.g. https://github.com/owner).
GhUrls == {"github_owner_repo", "github_owner_only"}

\* client.py parse_github_url: TRUE when a pattern matches, else ValueError.
parse_github_url_matches(url) == url = "github_owner_repo"

\* What git.Repo.clone_from can do: succeed, raise git.GitCommandError, or
\* raise anything else (OSError from the file system, UnicodeError, ...).
CloneOutcomes == {"ok", "GitCommandError", "OtherError"}

\* The except clause of clone_repository (cloner.py 61-66): which exceptions
\* of clone_from it handles by removing target_dir.
clone_repository_handles(exc) == exc = "GitCommandError"

\* shutil.rmtree(d, ignore_errors=True) on an existing directory.
rmtree(dirs, d) == dirs \ {d}

\* cleanup_temp_clone (cloner.py 76-80).
cleanup_temp_clone(dirs, d) == IF d \in dirs THEN rmtree(dirs, d) ELSE dirs

GhInit ==
    /\ ghPc = "idle"
    /\ ghUrl = None
    /\ tempDirs = {}
    /\ target_dir = NoDir
    /\ clone_path = NoDir
    /\ ghExc = "none"
    /\ ghResult = "none"
    /\ ghFilesLeft = 0
    /\ ghIngestDone = FALSE
    /\ ghCalls = 0

\* A caller enters ingest_github_repository(github_url): lines 134-135.
GhCall ==
    /\ UNCHANGED ghOthers
    /\ ghPc \in {"idle", "done"}
    /\ ghCalls < MaxCalls
    /\ \E url \in GhUrls : ghUrl' = url
    /\ ghCalls' = ghCalls + 1
    /\ ghPc' = "parse"
    /\ target_dir' = NoDir
    /\ clone_path' = NoDir
    /\ ghExc' = "none"
    /\ ghResult' = "none"
    /\ ghFilesLeft' = 0
    /\ ghIngestDone' = FALSE
    /\ UNCHANGED tempDirs

\* clone_repository line 34: parse_github_url, ValueError when no match.
GhParseUrl ==
    /\ UNCHANGED ghOthers
    /\ ghPc = "parse"
    /\ IF parse_github_url_matches(ghUrl)
         THEN ghPc' = "mkdtemp" /\ UNCHANGED ghExc
         ELSE ghPc' = "except" /\ ghExc' = "ValueError"
    /\ UNCHANGED <<ghUrl, tempDirs, target_dir, clone_path, ghResult,
                   ghFilesLeft, ghIngestDone, ghCalls>>

\* clone_repository line 38: tempfile.mkdtemp makes the scratch directory
\* (or fails with OSError, making none).
GhMkdtemp ==
    /\ UNCHANGED ghOthers
    /\ ghPc = "mkdtemp"
    /\ \/ /\ target_dir' = <<ghCalls>>
          /\ tempDirs' = tempDirs \cup {<<ghCalls>>}
          /\ ghPc' = "clone_from"
          /\ UNCHANGED ghExc
       \/ /\ ghExc' = "OSError"
          /\ ghPc' = "except"
          /\ UNCHANGED <<target_dir, tempDirs>>
    /\ UNCHANGED <<ghUrl, clone_path, ghResult, ghFilesLeft, ghIngestDone, ghCalls>>

\* clone_repository lines 45-66: git.Repo.clone_from and its except clause;
\* on success the path is returned and bound to clone_path (walker.py 139).
GhCloneFrom ==
    /\ UNCHANGED ghOthers
    /\ ghPc = "clone_from"
    /\ \E outcome \in CloneOutcomes, n \in 0..MaxCloneFiles :
         IF outcome = "ok"
           THEN /\ clone_path' = target_dir
                /\ ghFilesLeft' = n
                /\ ghPc' = "collect_files"
                /\ UNCHANGED <<tempDirs, ghExc>>
           ELSE /\ tempDirs' = IF clone_repository_handles(outcome)
                                 THEN cleanup_temp_clone(tempDirs, target_dir)
                                 ELSE tempDirs
                /\ ghExc' = outcome
                /\ ghPc' = "except"
                /\ UNCHANGED <<clone_path, ghFilesLeft>>
    /\ UNCHANGED <<ghUrl, target_dir, ghResult, ghIngestDone, ghCalls>>

\* ingest_local_repository -> collect_files (walker.py 169, 81-89): one file
\* of the clone is read; the directory walk itself may fail (OSError).
GhCollectFiles ==
    /\ UNCHANGED ghOthers
    /\ ghPc = "collect_files"
    /\ \/ /\ ghFilesLeft > 0
          /\ ghFilesLeft' = ghFilesLeft - 1
          /\ UNCHANGED <<ghPc, ghExc>>
       \/ /\ ghFilesLeft = 0
          /\ ghPc' = "get_recent_commits"
          /\ UNCHANGED <<ghFilesLeft, ghExc>>
       \/ /\ ghFilesLeft > 0
          /\ ghExc' = "OSError"
          /\ ghPc' = "except"
          /\ UNCHANGED ghFilesLeft
    /\ UNCHANGED <<ghUrl, tempDirs, target_dir, clone_path, ghResult,
                   ghIngestDone, ghCalls>>

\* ingest_local_repository -> get_recent_commits (walker.py 170, 95-110) and
\* the return of the snapshot (173-180, 145-149); an error other than
\* InvalidGitRepositoryError leaves get_recent_commits.
GhGetRecentCommits ==
    /\ UNCHANGED ghOthers
    /\ ghPc = "get_recent_commits"
    /\ \/ /\ ghIngestDone' = TRUE
          /\ ghPc' = "finally"
          /\ UNCHANGED ghExc
       \/ /\ ghExc' = "GitError"
          /\ ghPc' = "except"
          /\ UNCHANGED ghIngestDone
    /\ UNCHANGED <<ghUrl, tempDirs, target_dir, clone_path, ghResult,
                   ghFilesLeft, ghCalls>>

\* walker.py 151-153: log and re-raise.
GhExcept ==
    /\ UNCHANGED ghOthers
    /\ ghPc = "except"
    /\ ghPc' = "finally"
    /\ UNCHANGED <<ghUrl, tempDirs, target_dir, clone_path, ghExc, ghResult,
                   ghFilesLeft, ghIngestDone, ghCalls>>

\* walker.py 154-157: the finally clause, then the call ends.
GhFinally ==
    /\ UNCHANGED ghOthers
    /\ ghPc = "finally"
    /\ tempDirs' = IF clone_path # NoDir
                     THEN cleanup_temp_clone(tempDirs, clone_path)
                     ELSE tempDirs
    /\ ghResult' = IF ghExc = "none" THEN "snapshot" ELSE "raised"
    /\ ghPc' = "done"
    /\ UNCHANGED <<ghUrl, target_dir, clone_path, ghExc, ghFilesLeft,
                   ghIngestDone, ghCalls>>

GhNext ==
    \/ GhCall
    \/ GhParseUrl
    \/ GhMkdtemp
    \/ GhCloneFrom
    \/ GhCollectFiles
    \/ GhGetRecentCommits
    \/ GhExcept
    \/ GhFinally


(***************************************************************************)
(* Texts: the str operations the program applies                           *)
(***************************************************************************)
\* A text is a sequence of characters, so that searching, slicing and
\* stripping act on it character by character as they do in the program.
\* A character is written as a string of length one, but for the backtick,
\* which no TLA+ string can hold.
Backtick == "BACKTICK"
Least(S) == CHOOSE x \in S : \A y \in S : x <= y
Greatest(S) == CHOOSE x \in S : \A y \in S : x >= y
\* The text has the literal at position i (counted from 1).
HasAt(text, i, literal) ==
    /\ i + Len(literal) - 1 <= Len(text)
    /\ SubSeq(text, i, i + Len(literal) - 1) = literal

\* needle in text
str_in(needle, text) ==
    \E i \in 0..(Len(text) - Len(needle)) : SubSeq(text, i + 1, i + Len(needle)) = needle

\* text.find(sub, start): the lowest index, counted from 0 and not below
\* start, at which sub is found in text, -1 when there is none.
str_find(text, sub, start) ==
    LET hits == {i \in start..(Len(text) - Len(sub)) : HasAt(text, i + 1, sub)}
    IN  IF hits = {} THEN -1 ELSE Least(hits)

\* text[start:stop]: indices count from 0, a negative index counts from the
\* end, and an index beyond either end is taken to that end.
SliceIndex(text, i) ==
    IF i < 0 THEN (IF Len(text) + i < 0 THEN 0 ELSE Len(text) + i)
    ELSE IF i > Len(text) THEN Len(text) ELSE i
str_slice(text, start, stop) ==
    IF SliceIndex(text, start) >= SliceIndex(text, stop) THEN <<>>
    ELSE SubSeq(text, SliceIndex(text, start) + 1, SliceIndex(text, stop))

\* text.strip(): leading and trailing whitespace removed.
Whitespace == {" ", "\n", "\t"}
RECURSIVE str_lstrip(_)
str_lstrip(text) ==
    IF text # <<>> /\ text[1] \in Whitespace THEN str_lstrip(Tail(text)) ELSE text
RECURSIVE str_rstrip(_)
str_rstrip(text) ==
    IF text # <<>> /\ text[Len(text)] \in Whitespace
      THEN str_rstrip(SubSeq(text, 1, Len(text) - 1)) ELSE text
str_strip(text) == str_lstrip(str_rstrip(text))

(***************************************************************************)
(* Reasoning engines: intelligence/mock.py, openai_engine.py,              *)
(* anthropic_engine.py, local_llm.py                                       *)
(***************************************************************************)
\* No Insights object (nothing was returned), no backend (the mock has none),
\* and a message whose content is None instead of a text.
NoInsights == [none |-> TRUE]
NoBackend == [kind |-> "none"]
NoneContent == <<None>>

\* mock.py 12-26: the fixed-template bundle.
MockInsights ==
    [problem |-> "This project addresses a significant challenge in its domain by providing innovative solutions to common pain points.",
     solution |-> "The project implements a comprehensive approach using best practices and modern technologies to deliver reliable results.",
     value_proposition |-> "Offers substantial benefits including improved efficiency, reduced complexity, and enhanced user experience.",
     target_users |-> "Developers, engineers, and organizations looking to streamline their workflows and improve productivity.",
     key_features |-> <<"Modular architecture for easy customization",
                        "Comprehensive documentation and examples",
                        "Strong type safety and error handling",
                        "Extensible plugin system",
                        "High performance and scalability">>,
     current_focus |-> "Enhancing core functionality, improving documentation, and gathering user feedback for future improvements.",
     future_plans |-> "Expand platform support, add advanced features, and build a vibrant community ecosystem."]

\* openai_engine.py 125-140.
OpenAI_fallback_insights ==
    [problem |-> "This project addresses specific technical challenges in its domain.",
     solution |-> "The project provides a comprehensive solution using modern development practices.",
     value_proposition |-> "Offers improved efficiency, reliability, and user experience.",
     target_users |-> "Developers, engineers, and technical professionals.",
     key_features |-> <<"Modern architecture and design",
                        "Comprehensive functionality",
                        "Developer-friendly interface",
                        "Reliable performance">>,
     current_focus |-> "Enhancing core features and improving documentation.",
     future_plans |-> "Expanding capabilities and growing the user community."]

\* anthropic_engine.py 122-137.
Anthropic_fallback_insights ==
    [problem |-> "This project addresses specific technical challenges in its domain.",
     solution |-> "The project provides a comprehensive solution using modern development practices.",
     value_proposition |-> "Offers improved efficiency, reliability, and user experience.",
     target_users |-> "Developers, engineers, and technical professionals.",
     key_features |-> <<"Modern architecture and design",
                        "Comprehensive functionality",
                        "Developer-friendly interface",
                        "Reliable performance">>,
     current_focus |-> "Enhancing core features and improving documentation.",
     future_plans |-> "Expanding capabilities and growing the user community."]

\* local_llm.py 130-145.
Local_fallback_insights ==
    [problem |-> "This project addresses specific technical challenges in its domain.",
     solution |-> "The project provides a comprehensive solution using modern development practices.",
     value_proposition |-> "Offers improved efficiency, reliability, and user experience.",
     target_users |-> "Developers, engineers, and technical professionals.",
     key_features |-> <<"Modern architecture and design",
                        "Comprehensive functionality",
                        "Developer-friendly interface",
                        "Reliable performance">>,
     current_focus |-> "Enhancing core features and improving documentation.",
     future_plans |-> "Expanding capabilities and growing the user community."]

\* A hosted backend's response is a text.  The responses are put together
\* from these pieces: the two fences the wrappers look for, one backtick, three
\* JSON objects (one with all seven keys, one with all seven keys and six key
\* features, one with the key problem only), JSON that is not an object, a
\* number, a word, a semicolon and a line break.
FenceJson == <<Backtick, Backtick, Backtick, "j", "s", "o", "n">>
Fence == <<Backtick, Backtick, Backtick>>
Tick == <<Backtick>>
\*   {"problem": "backend: problem", "solution": "backend: solution",
\*   "value_proposition": "backend: value", "target_users": "backend: users",
\*   "key_features": ["backend: feature"], "current_focus": "backend: focus",
\*   "future_plans": "backend: plans"}
ObjAll ==
    <<"{", "\"", "p", "r", "o", "b", "l", "e", "m", "\"", ":", " ", "\"", "b", "a", "c", "k",
      "e", "n", "d", ":", " ", "p", "r", "o", "b", "l", "e", "m", "\"", ",", " ", "\"", "s",
      "o", "l", "u", "t", "i", "o", "n", "\"", ":", " ", "\"", "b", "a", "c", "k", "e", "n",
      "d", ":", " ", "s", "o", "l", "u", "t", "i", "o", "n", "\"", ",", " ", "\"", "v", "a",
      "l", "u", "e", "_", "p", "r", "o", "p", "o", "s", "i", "t", "i", "o", "n", "\"", ":",
      " ", "\"", "b", "a", "c", "k", "e", "n", "d", ":", " ", "v", "a", "l", "u", "e", "\"",
      ",", " ", "\"", "t", "a", "r", "g", "e", "t", "_", "u", "s", "e", "r", "s", "\"", ":",
      " ", "\"", "b", "a", "c", "k", "e", "n", "d", ":", " ", "u", "s", "e", "r", "s", "\"",
      ",", " ", "\"", "k", "e", "y", "_", "f", "e", "a", "t", "u", "r", "e", "s", "\"", ":",
      " ", "[", "\"", "b", "a", "c", "k", "e", "n", "d", ":", " ", "f", "e", "a", "t", "u",
      "r", "e", "\"", "]", ",", " ", "\"", "c", "u", "r", "r", "e", "n", "t", "_", "f", "o",
      "c", "u", "s", "\"", ":", " ", "\"", "b", "a", "c", "k", "e", "n", "d", ":", " ", "f",
      "o", "c", "u", "s", "\"", ",", " ", "\"", "f", "u", "t", "u", "r", "e", "_", "p", "l",
      "a", "n", "s", "\"", ":", " ", "\"", "b", "a", "c", "k", "e", "n", "d", ":", " ", "p",
      "l", "a", "n", "s", "\"", "}">>
\*   {"problem": "backend: problem", "solution": "backend: solution",
\*   "value_proposition": "backend: value", "target_users": "backend: users",
\*   "key_features": ["backend: feature 1", "backend: feature 2", "backend:
\*   feature 3", "backend: feature 4", "backend: feature 5", "backend: feature
\*   6"], "current_focus": "backend: focus", "future_plans": "backend: plans"}
ObjSix ==
    <<"{", "\"", "p", "r", "o", "b", "l", "e", "m", "\"", ":", " ", "\"", "b", "a", "c", "k",
      "e", "n", "d", ":", " ", "p", "r", "o", "b", "l", "e", "m", "\"", ",", " ", "\"", "s",
      "o", "l", "u", "t", "i", "o", "n", "\"", ":", " ", "\"", "b", "a", "c", "k", "e", "n",
      "d", ":", " ", "s", "o", "l", "u", "t", "i", "o", "n", "\"", ",", " ", "\"", "v", "a",
      "l", "u", "e", "_", "p", "r", "o", "p", "o", "s", "i", "t", "i", "o", "n", "\"", ":",
      " ", "\"", "b", "a", "c", "k", "e", "n", "d", ":", " ", "v", "a", "l", "u", "e", "\"",
      ",", " ", "\"", "t", "a", "r", "g", "e", "t", "_", "u", "s", "e", "r", "s", "\"", ":",
      " ", "\"", "b", "a", "c", "k", "e", "n", "d", ":", " ", "u", "s", "e", "r", "s", "\"",
      ",", " ", "\"", "k", "e", "y", "_", "f", "e", "a", "t", "u", "r", "e", "s", "\"", ":",
      " ", "[", "\"", "b", "a", "c", "k", "e", "n", "d", ":", " ", "f", "e", "a", "t", "u",
      "r", "e", " ", "1", "\"", ",", " ", "\"", "b", "a", "c", "k", "e", "n", "d", ":", " ",
      "f", "e", "a", "t", "u", "r", "e", " ", "2", "\"", ",", " ", "\"", "b", "a", "c", "k",
      "e", "n", "d", ":", " ", "f", "e", "a", "t", "u", "r", "e", " ", "3", "\"", ",", " ",
      "\"", "b", "a", "c", "k", "e", "n", "d", ":", " ", "f", "e", "a", "t", "u", "r", "e",
      " ", "4", "\"", ",", " ", "\"", "b", "a", "c", "k", "e", "n", "d", ":", " ", "f", "e",
      "a", "t", "u", "r", "e", " ", "5", "\"", ",", " ", "\"", "b", "a", "c", "k", "e", "n",
      "d", ":", " ", "f", "e", "a", "t", "u", "r", "e", " ", "6", "\"", "]", ",", " ", "\"",
      "c", "u", "r", "r", "e", "n", "t", "_", "f", "o", "c", "u", "s", "\"", ":", " ", "\"",
      "b", "a", "c", "k", "e", "n", "d", ":", " ", "f", "o", "c", "u", "s", "\"", ",", " ",
      "\"", "f", "u", "t", "u", "r", "e", "_", "p", "l", "a", "n", "s", "\"", ":", " ", "\"",
      "b", "a", "c", "k", "e", "n", "d", ":", " ", "p", "l", "a", "n", "s", "\"", "}">>
\*   {"problem": "backend: problem"}
ObjProblem ==
    <<"{", "\"", "p", "r", "o", "b", "l", "e", "m", "\"", ":", " ", "\"", "b", "a", "c", "k",
      "e", "n", "d", ":", " ", "p", "r", "o", "b", "l", "e", "m", "\"", "}">>
Null == <<"n", "u", "l", "l">>
Number == <<"1", "2">>
Word == <<"h", "e", "l", "l", "o">>
Semicolon == <<";">>
Newline == <<"\n">>
Tokens == {FenceJson, Fence, Tick, ObjAll, ObjSix, ObjProblem, Null, Number, Word,
           Semicolon, Newline}

RECURSIVE SeqsUpTo(_, _)
SeqsUpTo(S, n) ==
    IF n = 0 THEN {<<>>}
    ELSE LET shorter == SeqsUpTo(S, n - 1)
         IN  shorter \cup {Append(q, x) : q \in {r \in shorter : Len(r) = n - 1}, x \in S}

\* The pieces written one after the other.
RECURSIVE Concat(_)
Concat(pieces) == IF pieces = <<>> THEN <<>> ELSE Head(pieces) \o Concat(Tail(pieces))

Responses == {Concat(pieces) : pieces \in SeqsUpTo(Tokens, MaxTokens)}

\* openai_engine.py 99-101 and 103-105: response[json_start:json_end], where
\* json_start is just behind the first fence and json_end is where the next
\* three backticks are found from there on, -1 when there are none.
Fenced(response, fence) ==
    LET json_start == str_find(response, fence, 0) + Len(fence)
        json_end == str_find(response, Fence, json_start)
    IN  str_slice(response, json_start, json_end)

\* openai_engine.py 98-107: the text handed to json.loads.
ExtractJsonStr(response) ==
    IF str_in(FenceJson, response) THEN str_strip(Fenced(response, FenceJson))
    ELSE IF str_in(Fence, response) THEN str_strip(Fenced(response, Fence))
    ELSE str_strip(response)

\* What json.loads gives for the three object texts.
JsonObjects == {"OBJ_ALL", "OBJ_SIX", "OBJ_PROBLEM"}
Digits == {"0", "1", "2", "3", "4", "5", "6", "7", "8", "9"}

\* json.loads of a text cut out of such a response: the text is one of the
\* objects, null, or a number (digits, no leading zero), and anything else,
\* the empty text included, is a JSONDecodeError.
JsonLoads(js) ==
    IF js = ObjAll THEN [exc |-> "none", data |-> "OBJ_ALL"]
    ELSE IF js = ObjSix THEN [exc |-> "none", data |-> "OBJ_SIX"]
    ELSE IF js = ObjProblem THEN [exc |-> "none", data |-> "OBJ_PROBLEM"]
    ELSE IF js = Null THEN [exc |-> "none", data |-> "null"]
    ELSE IF /\ js # <<>>
            /\ \A i \in 1..Len(js) : js[i] \in Digits
            /\ (Len(js) = 1 \/ js[1] # "0")
      THEN [exc |-> "none", data |-> "NUMBER"]
      ELSE [exc |-> "JSONDecodeError", data |-> None]

\* The key_features list of the objects that hold the key.
SentFeatures(data) ==
    IF data = "OBJ_SIX"
      THEN <<"backend: feature 1", "backend: feature 2", "backend: feature 3",
             "backend: feature 4", "backend: feature 5", "backend: feature 6">>
      ELSE <<"backend: feature">>

\* data.get(key, default) for the objects a backend may send.
DataGet(data, key, default, sent) ==
    IF data \in {"OBJ_ALL", "OBJ_SIX"} \/ key = "problem" THEN sent ELSE default

\* openai_engine.py 111-119: Insights from the parsed object.
InsightsFromData(data) ==
    [problem |-> DataGet(data, "problem", "Project addresses domain-specific challenges.", "backend: problem"),
     solution |-> DataGet(data, "solution", "Implements comprehensive solution using modern practices.", "backend: solution"),
     value_proposition |-> DataGet(data, "value_proposition", "Provides efficiency and reliability benefits.", "backend: value"),
     target_users |-> DataGet(data, "target_users", "Developers and technical professionals.", "backend: users"),
     key_features |-> DataGet(data, "key_features", <<"Modern architecture", "Easy to use", "Well documented">>, SentFeatures(data)),
     current_focus |-> DataGet(data, "current_focus", "Improving core functionality and user experience.", "backend: focus"),
     future_plans |-> DataGet(data, "future_plans", "Expanding features and community adoption.", "backend: plans")]

\* The except clause of _parse_response (openai_engine.py 121,
\* anthropic_engine.py 118): json.JSONDecodeError and KeyError.
parse_response_handles(exc) == exc \in {"JSONDecodeError", "KeyError"}

\* _parse_response of the two hosted wrappers (openai_engine.py 94-123,
\* anthropic_engine.py 91-120): [exc, insights]; exc is what leaves it.
\* A response that is not a string (None) fails at the first `in` test;
\* parsed JSON that is not an object fails at data.get.
JsonParseResponse(response, fallback) ==
    IF response = NoneContent THEN [exc |-> "TypeError", insights |-> NoInsights]
    ELSE LET loaded == JsonLoads(ExtractJsonStr(response))
             raised == IF loaded.exc # "none" THEN loaded.exc
                       ELSE IF loaded.data \notin JsonObjects THEN "AttributeError"
                       ELSE "none"
         IN  IF raised = "none"
               THEN [exc |-> "none", insights |-> InsightsFromData(loaded.data)]
             ELSE IF parse_response_handles(raised)
               THEN [exc |-> "none", insights |-> fallback]
             ELSE [exc |-> raised, insights |-> NoInsights]

OpenAI_parse_response(response) == JsonParseResponse(response, OpenAI_fallback_insights)
Anthropic_parse_response(response) == JsonParseResponse(response, Anthropic_fallback_insights)

\* What a hosted backend call can do: raise (connection or API error,
\* timeout), or return a message whose content is a text or None.
HostedBackend ==
    [kind : {"raises"}, exc : {"APIConnectionError", "APITimeoutError"}]
    \cup [kind : {"responds"}, content : Responses \cup {NoneContent}]

\* `except Exception` of reason() (openai_engine.py 60, anthropic_engine.py
\* 107, local_llm.py 83): every exception a backend call or the parsing
\* raises here derives from Exception.
ReasonCatchesOnlyParseErrors(exc) == exc \in {"JSONDecodeError", "KeyError"}
reason_handles(exc) == exc \in {"APIConnectionError", "APITimeoutError", "TypeError",
                                "AttributeError", "JSONDecodeError", "KeyError",
                                "IndexError", "RuntimeError"}

\* The try block of OpenAIReasoningEngine.reason (openai_engine.py 38-58).
OpenAI_try(backend) ==
    IF backend.kind = "raises" THEN [exc |-> backend.exc, insights |-> NoInsights]
    ELSE OpenAI_parse_response(backend.content)

\* The try block of AnthropicReasoningEngine.reason (anthropic_engine.py 38-54).
Anthropic_try(backend) ==
    IF backend.kind = "raises" THEN [exc |-> backend.exc, insights |-> NoInsights]
    ELSE Anthropic_parse_response(backend.content)

\* reason() of a wrapper, given what its try block did: [exc, outcome, insights].
ReasonResult(tried, fallback) ==
    IF tried.exc = "none"
      THEN [exc |-> "none", outcome |-> "returned", insights |-> tried.insights]
    ELSE IF reason_handles(tried.exc)
      THEN [exc |-> tried.exc, outcome |-> "returned", insights |-> fallback]
    ELSE [exc |-> tried.exc, outcome |-> "raised", insights |-> NoInsights]

\* openai_engine.py 36-63.
OpenAI_reason(backend) ==
    ReasonResult(OpenAI_try(backend), OpenAI_fallback_insights)

\* anthropic_engine.py 36-59.
Anthropic_reason(backend) ==
    ReasonResult(Anthropic_try(backend), Anthropic_fallback_insights)

\* A local model's generated text, after the prompt is cut off, is a sequence
\* of lines: "short" (at most 20 characters), "problem" (longer, holds
\* problem/challenge/issue), "solution" (longer, holds solution/solves/
\* addresses and no problem word), "other" (longer, holds none of them).
LineKinds == {"short", "problem", "solution", "other"}
GeneratedTexts == SeqsUpTo(LineKinds, MaxLines)

\* local_llm.py 107-113: the last line of a kind wins.
LastLineOf(lines, kind, default) ==
    IF \E i \in 1..Len(lines) : lines[i] = kind THEN "generated: " \o kind \o " line"
    ELSE default

\* local_llm.py 97-128: never fails on a text.
Local_parse_response(lines) ==
    [problem |-> LastLineOf(lines, "problem", "Addresses specific technical challenges in software development."),
     solution |-> LastLineOf(lines, "solution", "Provides a comprehensive solution using modern development practices."),
     value_proposition |-> "Improves development efficiency and code quality.",
     target_users |-> "Software developers and engineering teams.",
     key_features |-> <<"Modern architecture", "Developer-friendly design",
                        "Reliable performance", "Easy integration">>,
     current_focus |-> "Enhancing core functionality and user experience.",
     future_plans |-> "Expanding features and improving performance."]

\* What the local pipeline can do: be absent (the model failed to load,
\* local_llm.py 55-57), raise, return a malformed result (no
\* [0]['generated_text']), or return a text.
LocalBackend ==
    [kind : {"no_pipeline"}]
    \cup [kind : {"raises"}, exc : {"RuntimeError"}]
    \cup [kind : {"malformed"}, exc : {"KeyError", "IndexError"}]
    \cup [kind : {"responds"}, content : GeneratedTexts]

\* local_llm.py 59-85.
Local_reason(backend) ==
    IF backend.kind = "no_pipeline"
      THEN [exc |-> "none", outcome |-> "returned", insights |-> Local_fallback_insights]
    ELSE ReasonResult(
           IF backend.kind = "responds"
             THEN [exc |-> "none", insights |-> Local_parse_response(backend.content)]
             ELSE [exc |-> backend.exc, insights |-> NoInsights],
           Local_fallback_insights)

\* mock.py 10-26.
Mock_reason == [exc |-> "none", outcome |-> "returned", insights |-> MockInsights]

EnInit ==
    /\ enEngine = None
    /\ enBackend = NoBackend
    /\ enExc = "none"
    /\ enOutcome = "none"
    /\ enInsights = NoInsights

\* One run of the pipeline makes one reason() call on the engine it built
\* (cli/main.py 76): the actions below are enabled before that call only.
OpenAIReason ==
    /\ enOutcome = "none"
    /\ \E b \in HostedBackend :
         LET r == OpenAI_reason(b)
         IN  /\ enEngine' = "openai"
             /\ enBackend' = b
             /\ enExc' = r.exc
             /\ enOutcome' = r.outcome
             /\ enInsights' = r.insights
    /\ UNCHANGED enOthers

AnthropicReason ==
    /\ enOutcome = "none"
    /\ \E b \in HostedBackend :
         LET r == Anthropic_reason(b)
         IN  /\ enEngine' = "anthropic"
             /\ enBackend' = b
             /\ enExc' = r.exc
             /\ enOutcome' = r.outcome
             /\ enInsights' = r.insights
    /\ UNCHANGED enOthers

LocalReason ==
    /\ enOutcome = "none"
    /\ \E b \in LocalBackend :
         LET r == Local_reason(b)
         IN  /\ enEngine' = "local"
             /\ enBackend' = b
             /\ enExc' = r.exc
             /\ enOutcome' = r.outcome
             /\ enInsights' = r.insights
    /\ UNCHANGED enOthers

MockReason ==
    /\ enOutcome = "none"
    /\ enEngine' = "mock"
    /\ enBackend' = NoBackend
    /\ enExc' = Mock_reason.exc
    /\ enOutcome' = Mock_reason.outcome
    /\ enInsights' = Mock_reason.insights
    /\ UNCHANGED enOthers

EnNext ==
    \/ OpenAIReason
    \/ AnthropicReason
    \/ LocalReason
    \/ MockReason

(***************************************************************************)
(* Engine selection: intelligence/factory.py                               *)
(***************************************************************************)
Packages == {"openai", "anthropic", "transformers"}
KnownProviders == {"auto", "openai", "anthropic", "local", "simple", "mock"}
ProviderArgs == KnownProviders \cup {"gpt5"}

\* The user's answers to the prompts of an interactive call:
\*   use_local  Confirm "Would you like to use a local LLM?"        (factory.py 90)
\*   menu       Prompt "Select option" of the setup menu             (factory.py 114)
\*   key_entry  the key prompts: "no" declines, "empty" confirms and
\*              types nothing, "typed" confirms and types a key      (133-134,
\*              151-152, 175-176, 217-218)
\*   pip        the install prompts: "declined", or confirmed and then
\*              "no_pip" (no executable named pip on PATH), "failed" (pip
\*              exits non-zero), "installed" (pip exits 0)
\*                                                (193-200, 235-242, 277-284)
Answers ==
    [use_local : BOOLEAN, menu : {"1", "2", "3", "4", "5"},
     key_entry : {"no", "empty", "typed"},
     pip : {"declined", "no_pip", "failed", "installed"}]
NoAnswers == [use_local |-> FALSE, menu |-> "4", key_entry |-> "no", pip |-> "declined"]

NoArgs == [provider |-> None]
NoResult == [outcome |-> "none"]

\* Python truthiness of an Optional[str] key.
Truthy(key) == key # None /\ key # ""

\* The key a key prompt yields: Prompt.ask's text, or the key held before
\* when the user declines.
TypedKey(ans, before) ==
    IF ans.key_entry = "typed" THEN "typed-key"
    ELSE IF ans.key_entry = "empty" THEN ""
    ELSE before

\* What a call leaves behind: the engine and the key it was built with, the
\* process environment, and the packages installed.
Returned(engine, key, env, pkgs) ==
    [outcome |-> "returned", exc |-> "none", engine |-> engine, api_key |-> key,
     env |-> env, installed |-> pkgs]
\* An exception leaves create_reasoning_engine.
Raised(exc, env, pkgs) ==
    [outcome |-> "raised", exc |-> exc, engine |-> None, api_key |-> None,
     env |-> env, installed |-> pkgs]

\* factory.py 290-293.
create_simple_engine(env, pkgs) == Returned("SimpleLLMReasoningEngine", None, env, pkgs)

\* subprocess.check_call(["pip", "install", ...]) (factory.py 196, 238,
\* 280): what it raises and the packages installed afterwards.  Without an
\* executable named pip it raises FileNotFoundError, on a non-zero exit
\* CalledProcessError.
pip_install(pkg, pkgs, ans) ==
    IF ans.pip = "installed" THEN [exc |-> "none", installed |-> pkgs \cup {pkg}]
    ELSE IF ans.pip = "failed" THEN [exc |-> "CalledProcessError", installed |-> pkgs]
    ELSE [exc |-> "FileNotFoundError", installed |-> pkgs]

\* The except ImportError branches (factory.py 190-203, 232-245, 274-287).
\* An interactive call offers `pip install`.  After a successful install the
\* creator is called again, not interactive; the wrapper module stays as it
\* was imported (OPENAI_AVAILABLE, openai_engine.py 7-11 and 30-31;
\* ANTHROPIC_AVAILABLE; TRANSFORMERS_AVAILABLE, local_llm.py 7-12 and
\* 30-31), the constructor raises ImportError again, and the rule-based
\* engine is returned.  The except clause around check_call names
\* CalledProcessError only; any other exception leaves the creator.
except_ImportError(pkg, interactive, env, pkgs, ans) ==
    IF interactive /\ ans.pip # "declined"
      THEN LET pip == pip_install(pkg, pkgs, ans)
           IN  IF pip.exc = "none" THEN create_simple_engine(env, pip.installed)
               ELSE IF pip.exc = "CalledProcessError" THEN create_simple_engine(env, pkgs)
               ELSE Raised(pip.exc, env, pkgs)
      ELSE create_simple_engine(env, pkgs)

\* factory.py 164-204.  The wrapper module always imports; the constructor
\* raises ImportError when the openai package was missing at that import.
create_openai_engine(api_key, interactive, env, pkgs, ans) ==
    LET key1 == IF Truthy(api_key) THEN api_key ELSE env.OPENAI_API_KEY
        asked == ~Truthy(key1) /\ interactive /\ ans.key_entry # "no"
        key2 == IF asked THEN TypedKey(ans, key1) ELSE key1
        env2 == IF asked /\ Truthy(key2)
                  THEN [env EXCEPT !.OPENAI_API_KEY = key2] ELSE env
    IN  IF ~Truthy(key2) THEN create_simple_engine(env2, pkgs)
        ELSE IF "openai" \in pkgs
          THEN Returned("OpenAIReasoningEngine", key2, env2, pkgs)
        ELSE except_ImportError("openai", interactive, env2, pkgs, ans)

\* factory.py 206-246.
create_anthropic_engine(api_key, interactive, env, pkgs, ans) ==
    LET key1 == IF Truthy(api_key) THEN api_key ELSE env.ANTHROPIC_API_KEY
        asked == ~Truthy(key1) /\ interactive /\ ans.key_entry # "no"
        key2 == IF asked THEN TypedKey(ans, key1) ELSE key1
        env2 == IF asked /\ Truthy(key2)
                  THEN [env EXCEPT !.ANTHROPIC_API_KEY = key2] ELSE env
    IN  IF ~Truthy(key2) THEN create_simple_engine(env2, pkgs)
        ELSE IF "anthropic" \in pkgs
          THEN Returned("AnthropicReasoningEngine", key2, env2, pkgs)
        ELSE except_ImportError("anthropic", interactive, env2, pkgs, ans)

\* factory.py 248-287.
create_local_llm_engine(interactive, env, pkgs, ans) ==
    IF "transformers" \in pkgs THEN Returned("LocalLLMReasoningEngine", None, env, pkgs)
    ELSE except_ImportError("transformers", interactive, env, pkgs, ans)

\* factory.py 128-143: the provider name and the environment afterwards.
setup_openai_interactive(env, ans) ==
    IF ans.key_entry = "typed"
      THEN [provider |-> "openai", env |-> [env EXCEPT !.OPENAI_API_KEY = "typed-key"]]
      ELSE [provider |-> "simple", env |-> env]

\* factory.py 146-161.
setup_anthropic_interactive(env, ans) ==
    IF ans.key_entry = "typed"
      THEN [provider |-> "anthropic", env |-> [env EXCEPT !.ANTHROPIC_API_KEY = "typed-key"]]
      ELSE [provider |-> "simple", env |-> env]

\* factory.py 104-125.
interactive_provider_setup(env, ans) ==
    IF ans.menu = "1" THEN setup_openai_interactive(env, ans)
    ELSE IF ans.menu = "2" THEN setup_anthropic_interactive(env, ans)
    ELSE IF ans.menu = "3" THEN [provider |-> "local", env |-> env]
    ELSE IF ans.menu = "4" THEN [provider |-> "simple", env |-> env]
    ELSE [provider |-> "mock", env |-> env]

\* `from .openai_engine import OpenAIReasoningEngine` inside
\* _detect_available_provider (factory.py 68-73, 78-83): the wrapper modules
\* guard their own `import openai` / `import anthropic`, so importing them
\* succeeds whether or not the package is installed.
wrapper_module_imports(pkg, pkgs) == TRUE

\* factory.py 62-101.
detect_available_provider(interactive, env, pkgs, ans) ==
    IF Truthy(env.OPENAI_API_KEY) /\ wrapper_module_imports("openai", pkgs)
      THEN [provider |-> "openai", env |-> env]
    ELSE IF Truthy(env.ANTHROPIC_API_KEY) /\ wrapper_module_imports("anthropic", pkgs)
      THEN [provider |-> "anthropic", env |-> env]
    ELSE IF "transformers" \in pkgs /\ interactive /\ ans.use_local
      THEN [provider |-> "local", env |-> env]
    ELSE IF interactive THEN interactive_provider_setup(env, ans)
    ELSE [provider |-> "simple", env |-> env]

\* factory.py 57-59: the else branch for a provider name it does not know.
UnknownProviderRaises(env, pkgs) == Raised("ValueError", env, pkgs)
unknown_provider(env, pkgs) == create_simple_engine(env, pkgs)

\* factory.py 18-59.
create_reasoning_engine(provider, api_key, interactive, env, pkgs, ans) ==
    IF provider = "mock" THEN Returned("MockReasoningEngine", None, env, pkgs)
    ELSE IF provider = "simple" THEN create_simple_engine(env, pkgs)
    ELSE IF provider = "local" THEN create_local_llm_engine(interactive, env, pkgs, ans)
    ELSE LET det == IF provider = "auto"
                      THEN detect_available_provider(interactive, env, pkgs, ans)
                      ELSE [provider |-> provider, env |-> env]
         IN  IF det.provider = "openai"
               THEN create_openai_engine(api_key, interactive, det.env, pkgs, ans)
             ELSE IF det.provider = "anthropic"
               THEN create_anthropic_engine(api_key, interactive, det.env, pkgs, ans)
             ELSE IF det.provider = "simple" THEN create_simple_engine(det.env, pkgs)
             ELSE IF det.provider = "local"
               THEN create_local_llm_engine(interactive, det.env, pkgs, ans)
             ELSE unknown_provider(det.env, pkgs)

FaInit ==
    /\ environ = [OPENAI_API_KEY |-> None, ANTHROPIC_API_KEY |-> None]
    /\ installed = {}
    /\ faArgs = NoArgs
    /\ faResult = NoResult

\* The process environment before the call: a variable is exported.
FaSetenv ==
    /\ faResult = NoResult
    /\ \/ /\ environ.OPENAI_API_KEY = None
          /\ environ' = [environ EXCEPT !.OPENAI_API_KEY = "env-openai-key"]
       \/ /\ environ.ANTHROPIC_API_KEY = None
          /\ environ' = [environ EXCEPT !.ANTHROPIC_API_KEY = "env-anthropic-key"]
    /\ UNCHANGED <<installed, faArgs, faResult>>
    /\ UNCHANGED faOthers

\* The Python environment before the call: an optional package is installed.
FaInstall ==
    /\ faResult = NoResult
    /\ \E pkg \in Packages \ installed : installed' = installed \cup {pkg}
    /\ UNCHANGED <<environ, faArgs, faResult>>
    /\ UNCHANGED faOthers

\* One call create_reasoning_engine(provider, api_key, model, interactive);
\* faArgs keeps the environment and the packages the call found.
FaCreate ==
    /\ faResult = NoResult
    /\ \E provider \in ProviderArgs, api_key \in {None, "arg-key"},
          interactive \in BOOLEAN, ans \in Answers :
         /\ interactive \/ ans = NoAnswers
         /\ LET r == create_reasoning_engine(provider, api_key, interactive,
                                             environ, installed, ans)
            IN  /\ faArgs' = [provider |-> provider, api_key |-> api_key,
                              interactive |-> interactive, answers |-> ans,
                              environ |-> environ, installed |-> installed]
                /\ faResult' = [outcome |-> r.outcome, exc |-> r.exc,
                                engine |-> r.engine, api_key |-> r.api_key]
                /\ environ' = r.env
                /\ installed' = r.installed
    /\ UNCHANGED faOthers

\* main.py 67-69 and 224-226: the one key init and github pass on.
cli_api_key(openai_key, anthropic_key) ==
    IF Truthy(openai_key) THEN openai_key ELSE anthropic_key

\* init or github builds its engine: create_reasoning_engine(ai_provider,
\* openai_key or anthropic_key, ai_model, interactive=not no_interactive).
FaCreateFromCli ==
    /\ faResult = NoResult
    /\ \E ai_provider \in ProviderArgs, openai_key \in {None, "opt-openai-key"},
          anthropic_key \in {None, "opt-anthropic-key"},
          no_interactive \in BOOLEAN, ans \in Answers :
         /\ ~no_interactive \/ ans = NoAnswers
         /\ LET api_key == cli_api_key(openai_key, anthropic_key)
                r == create_reasoning_engine(ai_provider, api_key, ~no_interactive,
                                             environ, installed, ans)
            IN  /\ faArgs' = [provider |-> ai_provider, api_key |-> api_key,
                              interactive |-> ~no_interactive, answers |-> ans,
                              environ |-> environ, installed |-> installed,
                              openai_key |-> openai_key,
                              anthropic_key |-> anthropic_key]
                /\ faResult' = [outcome |-> r.outcome, exc |-> r.exc,
                                engine |-> r.engine, api_key |-> r.api_key]
                /\ environ' = r.env
                /\ installed' = r.installed
    /\ UNCHANGED faOthers

FaNext ==
    \/ FaSetenv
    \/ FaInstall
    \/ FaCreate
    \/ FaCreateFromCli

(***************************************************************************)
(* GitHubClient.parse_github_url: github/client.py                         *)
(***************************************************************************)
GithubCom == <<"g", "i", "t", "h", "u", "b", ".", "c", "o", "m">>
DotGit == <<".", "g", "i", "t">>

\* str.lower() on ASCII text.
UpperCase == <<"A", "B", "C", "D", "E", "F", "G", "H", "I", "J", "K", "L", "M", "N", "O", "P", "Q", "R", "S", "T", "U", "V", "W", "X", "Y", "Z">>
LowerCase == <<"a", "b", "c", "d", "e", "f", "g", "h", "i", "j", "k", "l", "m", "n", "o", "p", "q", "r", "s", "t", "u", "v", "w", "x", "y", "z">>
str_lower(text) ==
    [i \in 1..Len(text) |->
        IF \E k \in 1..26 : UpperCase[k] = text[i]
          THEN LowerCase[CHOOSE k \in 1..26 : UpperCase[k] = text[i]]
          ELSE text[i]]

\* [^/]+ from position i: the position of the last character before the next
\* slash (i - 1 when there is no such character).
RunEnd(text, i) ==
    LET slashes == {j \in i..Len(text) : text[j] = "/"}
    IN  IF slashes = {} THEN Len(text) ELSE Least(slashes) - 1
\* (?:\.git)?/?$ matches the whole of rest; $ also matches before a final
\* newline.
TailMatches(rest) ==
    \E git \in {<<>>, DotGit}, slash \in {<<>>, <<"/">>}, newline \in {<<>>, <<"\n">>} :
        rest = git \o slash \o newline
\* The ends at which ([^/]+?) starting at i can stop so that the tail matches.
RepoEnds(text, i) ==
    {k \in i..RunEnd(text, i) : TailMatches(SubSeq(text, k + 1, Len(text)))}
\* A greedy second group.
LongestRepoEnd(text, i) == Greatest(RepoEnds(text, i))
\* ([^/]+?) is lazy: the first end that lets the tail match.
RepoEnd(text, i) == Least(RepoEnds(text, i))

NoMatch == [matched |-> FALSE]
\* client.py 38: github\.com[:/]([^/]+)/([^/]+?)(?:\.git)?/?$ tried at position i.
FirstPatternAt(url, i) ==
    LET sep == i + Len(GithubCom)
        owner_end == RunEnd(url, sep + 1)
    IN  IF /\ HasAt(url, i, GithubCom)
           /\ sep <= Len(url) /\ url[sep] \in {":", "/"}
           /\ owner_end >= sep + 1
           /\ owner_end + 1 <= Len(url)
           /\ RepoEnds(url, owner_end + 2) # {}
        THEN [matched |-> TRUE,
              groups |-> <<SubSeq(url, sep + 1, owner_end),
                           SubSeq(url, owner_end + 2, RepoEnd(url, owner_end + 2))>>]
        ELSE NoMatch
\* client.py 39: github\.com/([^/]+)/([^/]+) tried at position i.
SecondPatternAt(url, i) ==
    LET sep == i + Len(GithubCom)
        owner_end == RunEnd(url, sep + 1)
        repo_end == RunEnd(url, owner_end + 2)
    IN  IF /\ HasAt(url, i, GithubCom)
           /\ sep <= Len(url) /\ url[sep] = "/"
           /\ owner_end >= sep + 1
           /\ owner_end + 1 <= Len(url)
           /\ repo_end >= owner_end + 2
        THEN [matched |-> TRUE,
              groups |-> <<SubSeq(url, sep + 1, owner_end),
                           SubSeq(url, owner_end + 2, repo_end)>>]
        ELSE NoMatch
\* re.search: the match at the leftmost position that has one.
SearchFirstPattern(url) ==
    LET starts == {i \in 1..Len(url) : FirstPatternAt(url, i).matched}
    IN  IF starts = {} THEN NoMatch ELSE FirstPatternAt(url, Least(starts))
SearchSecondPattern(url) ==
    LET starts == {i \in 1..Len(url) : SecondPatternAt(url, i).matched}
    IN  IF starts = {} THEN NoMatch ELSE SecondPatternAt(url, Least(starts))

\* client.py 34-48.
parse_github_url(url) ==
    IF SearchFirstPattern(url).matched
    THEN [raised |-> "none", value |-> SearchFirstPattern(url).groups]
    ELSE IF SearchSecondPattern(url).matched
    THEN [raised |-> "none", value |-> SearchSecondPattern(url).groups]
    ELSE [raised |-> "ValueError"]

(***************************************************************************)
(* Command line surface: cli/main.py                                       *)
(***************************************************************************)
\* The repository argument, by what it names:
\*   dir         an existing local directory
\*   missing     a path that does not exist
\*   file        a path to a regular file
\*   github_dir  an existing local directory below one named github.com
\*               (a Go workspace)
\*   github_url  a GitHub URL
\*   GitHub_url  the same URL, its host written GitHub.com
\*   gitlab_url  a URL of another host
RepoArgs == {"dir", "missing", "file", "github_dir", "github_url", "GitHub_url",
             "gitlab_url"}
ExistingDirs == {"dir", "github_dir"}

\* The argument as typed.
PathOf(repo) ==
    CASE repo = "dir" -> <<"/", "w", "o", "r", "k", "/", "p", "r", "o", "j">>
      [] repo = "missing" -> <<"/", "w", "o", "r", "k", "/", "n", "o", "p", "e">>
      [] repo = "file" -> <<"/", "w", "o", "r", "k", "/", "a", "f", "i", "l", "e">>
      [] repo = "github_dir" ->
           <<"/", "g", "o", "/", "s", "r", "c", "/", "g", "i", "t", "h", "u", "b", ".", "c", "o", "m", "/", "o", "/", "r">>
      [] repo = "github_url" ->
           <<"h", "t", "t", "p", "s", ":", "/", "/", "g", "i", "t", "h", "u", "b", ".", "c", "o", "m", "/", "o", "/", "r">>
      [] repo = "GitHub_url" ->
           <<"h", "t", "t", "p", "s", ":", "/", "/", "G", "i", "t", "H", "u", "b", ".", "c", "o", "m", "/", "o", "/", "r">>
      [] repo = "gitlab_url" ->
           <<"h", "t", "t", "p", "s", ":", "/", "/", "g", "i", "t", "l", "a", "b", ".", "c", "o", "m", "/", "o", "/", "r">>

\* walker.py 127-129: "github.com" in path.lower().
is_github_url(repo) == str_in(GithubCom, str_lower(PathOf(repo)))

\* What the collaborators of a run do:
\*   clone    git clone of a GitHub URL: "ok" | "fails"
\*   enrich   GitHubEnricher.enrich_snapshot: "ok" | "fails"
\*   save     save_mcp writing the file: "ok" | "fails"
\*   rate     GitHubClient.check_rate_limit: "json" | "empty" ({} on a request error)
\*   file     validate's document: "missing" | "valid" | "invalid"
\*   engine   create_reasoning_engine given the provider options typed for
\*            init or github: "ok" | "raises" (an install was accepted and
\*            no pip is on PATH)
Collaborators ==
    [clone : {"ok", "fails"}, enrich : {"ok", "fails"}, save : {"ok", "fails"},
     rate : {"json", "empty"}, file : {"missing", "valid", "invalid"},
     engine : {"ok", "raises"}]
AllSucceed ==
    [clone |-> "ok", enrich |-> "ok", save |-> "ok", rate |-> "json", file |-> "valid",
     engine |-> "ok"]

\* A typer.Option(...) default object: what a parameter holds when the
\* command function is called directly without that argument.
OptionInfo == "<OptionInfo>"

NoCliArgs == [command |-> None]
NoOut == [exit |-> None]

\* console.print calls are recorded by what they print; the indented detail
\* lines that follow a heading (metrics, rate limit figures, bullet lists)
\* are recorded with their heading.  The lines printed in red are the error
\* lines.
ErrorLines == {"Error: <exception>", "Error: Please provide a valid GitHub URL",
               "Error: GitHub token required", "MCP file not found",
               "MCP file is invalid", "Validation error: <exception>",
               "Error: No such command"}

\* The program's end: the command function returned (exit status 0), raised
\* typer.Exit(1), or let another exception escape (traceback, status 1).
\* `document` is what save_mcp wrote, NoDocument when nothing was written.
NoDocument == [name_from |-> "none", signals_from |-> "none", content_from |-> "none"]
Returns(printed, trace, written) ==
    [printed |-> printed, exit |-> 0, uncaught |-> "none", trace |-> trace, written |-> written,
     document |-> NoDocument]
Exits1(printed, trace) ==
    [printed |-> printed, exit |-> 1, uncaught |-> "none", trace |-> trace, written |-> FALSE,
     document |-> NoDocument]
Escapes(printed, trace, exc) ==
    [printed |-> printed, exit |-> 1, uncaught |-> exc, trace |-> trace, written |-> FALSE,
     document |-> NoDocument]
Wrote(document, out) == [out EXCEPT !.document = document]

\* How the program is started: "script" runs the module itself
\* (python -m mcp_builder.cli.main), "imported" has the module imported whole
\* before app is called (a console-script entry point, a test runner).
EntryPoints == {"script", "imported"}

\* The commands @app.command() has registered when app() runs.  Run as a
\* script, the module calls app() at main.py 345-346, above the definition of
\* validate (348-365); app() ends the process, so the rest is never reached.
registered_commands(entry) ==
    {"init", "update", "analyze", "github", "providers", "rate-limit"}
        \cup (IF entry = "imported" THEN {"validate"} ELSE {})

\* A command name app() has not registered: the usage message and the error
\* of the command line parser, exit status 2.
UsageError ==
    [printed |-> <<"Usage: main [OPTIONS] COMMAND [ARGS]...", "Error: No such command">>,
     exit |-> 2, uncaught |-> "none", trace |-> <<>>, written |-> FALSE,
     document |-> NoDocument]

\* app() (main.py 20, 345-346): `ran` is what the command function does.
app(entry, command, ran) ==
    IF command \in registered_commands(entry) THEN ran ELSE UsageError

\* A snapshot is known by the repository it was ingested from and by whether
\* anything was merged into it afterwards.
SnapshotOf(repo) == [repo |-> repo, merged |-> "nothing"]

\* An enrich_snapshot that merges the fetched metrics into the snapshot.
EnrichMergesMetrics(snapshot, co) ==
    IF co.enrich = "ok"
      THEN [raised |-> FALSE, snapshot |-> [snapshot EXCEPT !.merged = "github metrics"]]
      ELSE [raised |-> TRUE, snapshot |-> snapshot]

\* enricher.py 20-38: the metrics are fetched and returned beside the
\* snapshot it was given; an error of the fetch is logged and re-raised.
enrich_snapshot(snapshot, co) ==
    IF co.enrich = "ok" THEN [raised |-> FALSE, snapshot |-> snapshot]
    ELSE [raised |-> TRUE, snapshot |-> snapshot]

\* main.py 49-77, 196-234: the document generate_mcp builds.  extract_signals
\* ran on the ingested snapshot; select_content and infer_project_name use
\* the snapshot bound after the enrichment block.
DocumentOf(repo, enriching, co) ==
    LET ingested == SnapshotOf(repo)
        enriched == enrich_snapshot(ingested, co)
        snapshot == IF enriching /\ ~enriched.raised THEN enriched.snapshot ELSE ingested
    IN  [name_from |-> snapshot, signals_from |-> ingested, content_from |-> snapshot]

\* `except Exception as e: console.print("[red]Error:[/red] ..."); raise
\* typer.Exit(1)` (main.py 96-98, 164-166, 242-244, 295-297, 324-326).
\* typer.Exit is click.exceptions.Exit, a RuntimeError, so a typer.Exit
\* raised inside the try block is caught here as well.
ExceptException(printed, trace) == Exits1(Append(printed, "Error: <exception>"), trace)

\* ingest_repository (walker.py 113-124, 132-157, 160-166): "ok" or the
\* error raised.  What is_github_url takes for a URL is parsed for owner and
\* repository (cloner.py 34) and https://github.com/<owner>/<repo>.git is
\* cloned, whatever the argument names on disk.
ingest_repository(repo, co) ==
    IF is_github_url(repo)
      THEN IF parse_github_url(PathOf(repo)).raised # "none" THEN "ValueError"
           ELSE IF co.clone = "ok" THEN "ok"
           ELSE "GitCommandError"
    ELSE IF repo \in ExistingDirs THEN "ok"
    ELSE "ValueError"

\* Path(output) (main.py 81): TypeError unless output is a str.
PathAccepts(output) == output # OptionInfo

\* init calling the reasoning engine a second time.
InitRetriesReasoning(repo_path, github_token, output, co, envtoken) ==
    LET token == IF Truthy(github_token) THEN github_token ELSE envtoken
        p1 == <<"Analyzing repository">>
              \o (IF Truthy(token) THEN <<"Using GitHub token">> ELSE <<>>)
        ingested == ingest_repository(repo_path, co)
        enriching == is_github_url(repo_path) /\ Truthy(token)
        metrics == enriching /\ co.enrich = "ok"
        t2 == <<"ingest", "signals">> \o (IF enriching THEN <<"enrich">> ELSE <<>>)
        p2 == p1 \o (IF ~enriching THEN <<>>
                     ELSE IF metrics THEN <<"GitHub metrics">>
                     ELSE <<"Warning: Could not fetch GitHub metadata">>)
        p3 == Append(p2, "Using <engine> reasoning engine")
        t3 == t2 \o <<"engine", "select", "reason", "reason", "generate">>
    IN  IF ingested # "ok" THEN ExceptException(p1, <<"ingest">>)
        ELSE IF co.engine # "ok" THEN ExceptException(p2, Append(t2, "engine"))
        ELSE IF Truthy(output) /\ ~PathAccepts(output) THEN ExceptException(p3, t3)
        ELSE IF co.save # "ok" THEN ExceptException(p3, Append(t3, "save"))
        ELSE Wrote(DocumentOf(repo_path, enriching, co),
                   Returns(Append(p3, "MCP generated successfully")
                             \o (IF metrics THEN <<"Repository popularity score">> ELSE <<>>),
                           Append(t3, "save"), TRUE))

\* main.py 27-98, given the resolved arguments.  The provider options only
\* name the engine built, or make create_reasoning_engine raise (co.engine);
\* every engine's reason() returns (C2).
init(repo_path, github_token, output, co, envtoken) ==
    LET token == IF Truthy(github_token) THEN github_token ELSE envtoken
        p1 == <<"Analyzing repository">>
              \o (IF Truthy(token) THEN <<"Using GitHub token">> ELSE <<>>)
        ingested == ingest_repository(repo_path, co)
        enriching == is_github_url(repo_path) /\ Truthy(token)
        metrics == enriching /\ co.enrich = "ok"
        t2 == <<"ingest", "signals">> \o (IF enriching THEN <<"enrich">> ELSE <<>>)
        p2 == p1 \o (IF ~enriching THEN <<>>
                     ELSE IF metrics THEN <<"GitHub metrics">>
                     ELSE <<"Warning: Could not fetch GitHub metadata">>)
        p3 == Append(p2, "Using <engine> reasoning engine")
        t3 == t2 \o <<"engine", "select", "reason", "generate">>
    IN  IF ingested # "ok" THEN ExceptException(p1, <<"ingest">>)
        ELSE IF co.engine # "ok" THEN ExceptException(p2, Append(t2, "engine"))
        ELSE IF Truthy(output) /\ ~PathAccepts(output) THEN ExceptException(p3, t3)
        ELSE IF co.save # "ok" THEN ExceptException(p3, Append(t3, "save"))
        ELSE Wrote(DocumentOf(repo_path, enriching, co),
                   Returns(Append(p3, "MCP generated successfully")
                             \o (IF metrics THEN <<"Repository popularity score">> ELSE <<>>),
                           Append(t3, "save"), TRUE))

\* create_reasoning_engine called by init with typer.Option default objects
\* for ai_provider, the keys, the model and no_interactive (main.py 68-69):
\* no provider test of factory.py 36-56 matches such an object, so the final
\* else (57-59) returns the rule-based engine; nothing is asked, pip is not
\* run, and nothing is raised, whatever a typed provider option would do.
engine_of_defaults(co) == [co EXCEPT !.engine = "ok"]

\* main.py 101-109: update calls init(repo_path, github_token) as a plain
\* function, so init's other parameters hold their typer.Option defaults.
update(repo_path, github_token, co, envtoken) ==
    LET r == init(repo_path, github_token, OptionInfo, engine_of_defaults(co), envtoken)
    IN  [r EXCEPT !.printed = <<"Update functionality not yet implemented">> \o @]

\* The globals of cli/main.py once it is imported: what it imports (3-18),
\* app and console (20-21), the command functions, and the names every
\* module has.
CliModuleNames == {"logging", "os", "Path", "Optional", "typer", "Console", "Table",
                   "extract_signals", "ingest_repository", "create_reasoning_engine",
                   "list_available_providers", "select_content", "generate_mcp",
                   "load_mcp", "save_mcp", "validate_mcp", "GitHubClient",
                   "GitHubEnricher", "app", "console", "init", "update", "analyze",
                   "github", "providers", "rate_limit", "validate",
                   "__name__", "__doc__", "__package__", "__loader__", "__spec__",
                   "__file__", "__cached__", "__builtins__"}
\* The names of the builtins module (CPython 3.11).
PythonBuiltins == {"ArithmeticError", "AssertionError", "AttributeError",
                   "BaseException", "BaseExceptionGroup", "BlockingIOError",
                   "BrokenPipeError", "BufferError", "BytesWarning", "ChildProcessError",
                   "ConnectionAbortedError", "ConnectionError", "ConnectionRefusedError",
                   "ConnectionResetError", "DeprecationWarning", "EOFError", "Ellipsis",
                   "EncodingWarning", "EnvironmentError", "Exception", "ExceptionGroup",
                   "False", "FileExistsError", "FileNotFoundError", "FloatingPointError",
                   "FutureWarning", "GeneratorExit", "IOError", "ImportError",
                   "ImportWarning", "IndentationError", "IndexError", "InterruptedError",
                   "IsADirectoryError", "KeyError", "KeyboardInterrupt", "LookupError",
                   "MemoryError", "ModuleNotFoundError", "NameError", "None",
                   "NotADirectoryError", "NotImplemented", "NotImplementedError",
                   "OSError", "OverflowError", "PendingDeprecationWarning",
                   "PermissionError", "ProcessLookupError", "RecursionError",
                   "ReferenceError", "ResourceWarning", "RuntimeError", "RuntimeWarning",
                   "StopAsyncIteration", "StopIteration", "SyntaxError", "SyntaxWarning",
                   "SystemError", "SystemExit", "TabError", "TimeoutError", "True",
                   "TypeError", "UnboundLocalError", "UnicodeDecodeError",
                   "UnicodeEncodeError", "UnicodeError", "UnicodeTranslateError",
                   "UnicodeWarning", "UserWarning", "ValueError", "Warning",
                   "ZeroDivisionError", "__build_class__", "__debug__", "__doc__",
                   "__import__", "__loader__", "__name__", "__package__", "__spec__",
                   "abs", "aiter", "all", "anext", "any", "ascii", "bin", "bool",
                   "breakpoint", "bytearray", "bytes", "callable", "chr", "classmethod",
                   "compile", "complex", "copyright", "credits", "delattr", "dict",
                   "dir", "divmod", "enumerate", "eval", "exec", "exit", "filter",
                   "float", "format", "frozenset", "getattr", "globals", "hasattr",
                   "hash", "help", "hex", "id", "input", "int", "isinstance",
                   "issubclass", "iter", "len", "license", "list", "locals", "map",
                   "max", "memoryview", "min", "next", "object", "oct", "open", "ord",
                   "pow", "print", "property", "quit", "range", "repr", "reversed",
                   "round", "set", "setattr", "slice", "sorted", "staticmethod", "str",
                   "sum", "super", "tuple", "type", "vars", "zip"}
\* A name read in a function body that is not local to it: the module's
\* globals, then the builtins; NameError when neither has it.
name_resolves(name) == name \in CliModuleNames \cup PythonBuiltins

\* main.py 112-166.
analyze(repo_path, github_token, co, envtoken) ==
    LET token == IF Truthy(github_token) THEN github_token ELSE envtoken
        ingested == ingest_repository(repo_path, co)
        enriching == is_github_url(repo_path) /\ Truthy(token)
        t2 == <<"ingest", "signals">> \o (IF enriching THEN <<"enrich">> ELSE <<>>)
        p2 == IF enriching /\ co.enrich # "ok"
                THEN <<"Warning: Could not fetch GitHub metadata">> ELSE <<>>
    IN  IF ingested # "ok" THEN ExceptException(<<>>, <<"ingest">>)
        ELSE IF ~name_resolves("MockReasoningEngine") THEN ExceptException(p2, t2)
        ELSE Returns(Append(p2, "Repository Analysis table"),
                     t2 \o <<"engine", "select", "reason">>, FALSE)

\* main.py 169-244.
github(github_url, github_token, output, co, envtoken) ==
    LET token == IF Truthy(github_token) THEN github_token ELSE envtoken
        p0 == IF Truthy(token) THEN <<>>
              ELSE <<"Warning: No GitHub token provided", "Set GITHUB_TOKEN">>
        p1 == Append(p0, "Analyzing GitHub repository")
        ingested == ingest_repository(github_url, co)
        enriching == Truthy(token)
        metrics == enriching /\ co.enrich = "ok"
        t2 == <<"ingest", "signals">> \o (IF enriching THEN <<"enrich">> ELSE <<>>)
        p2 == p1 \o (IF ~enriching THEN <<>>
                     ELSE IF metrics THEN <<"GitHub Repository Metrics">>
                     ELSE <<"Warning: Could not fetch GitHub metadata">>)
        p3 == Append(p2, "Using <engine> reasoning engine")
        t3 == t2 \o <<"engine", "select", "reason", "generate">>
    IN  IF ~is_github_url(github_url)
          THEN ExceptException(Append(p1, "Error: Please provide a valid GitHub URL"), <<>>)
        ELSE IF ingested # "ok" THEN ExceptException(p1, <<"ingest">>)
        ELSE IF co.engine # "ok" THEN ExceptException(p2, Append(t2, "engine"))
        ELSE IF Truthy(output) /\ ~PathAccepts(output) THEN ExceptException(p3, t3)
        ELSE IF co.save # "ok" THEN ExceptException(p3, Append(t3, "save"))
        ELSE Wrote(DocumentOf(github_url, enriching, co),
                   Returns(Append(p3, "MCP generated successfully"), Append(t3, "save"), TRUE))

\* main.py 247-297.
providers == Returns(<<"Available AI Providers table", "Setup Instructions",
                       "Recommendations">>, <<>>, FALSE)

\* main.py 300-342: the try block, then the statements left behind after
\* it (327-342), the first of which reads the undefined name mcp_path.
rate_limit(github_token, co, envtoken) ==
    LET token == IF Truthy(github_token) THEN github_token ELSE envtoken
        p1 == IF co.rate = "json" THEN <<"GitHub API Rate Limit Status">>
              ELSE <<"Could not fetch rate limit information">>
    IN  IF ~Truthy(token) THEN ExceptException(<<"Error: GitHub token required">>, <<>>)
        ELSE IF ~name_resolves("mcp_path") THEN Escapes(p1, <<>>, "NameError")
        ELSE Returns(p1, <<>>, FALSE)

\* main.py 348-365 (validate_mcp, generator.py 80-87, always returns True).
validate(co) ==
    IF co.file = "missing" THEN Exits1(<<"MCP file not found">>, <<>>)
    ELSE IF co.file = "invalid" THEN Exits1(<<"Validation error: <exception>">>, <<>>)
    ELSE Returns(<<"MCP file is valid">>, <<>>, FALSE)

CliInit ==
    /\ GITHUB_TOKEN = None
    /\ cliArgs = NoCliArgs
    /\ cliOut = NoOut

\* The shell exports GITHUB_TOKEN before the program starts.
CliSetenv ==
    /\ cliOut = NoOut
    /\ GITHUB_TOKEN = None
    /\ GITHUB_TOKEN' = "env-token"
    /\ UNCHANGED <<cliArgs, cliOut>>
    /\ UNCHANGED cliOthers

CliRunInit ==
    /\ cliOut = NoOut
    /\ \E entry \in EntryPoints, repo \in RepoArgs, tok \in {None, "arg-token"},
          out \in {None, "out.yaml"}, co \in Collaborators :
         /\ co.rate = "json" /\ co.file = "valid"
         /\ cliArgs' = [entry |-> entry, command |-> "init", repo |-> repo, github_token |-> tok,
                        output |-> out, co |-> co]
         /\ cliOut' = app(entry, "init", init(repo, tok, out, co, GITHUB_TOKEN))
    /\ UNCHANGED GITHUB_TOKEN
    /\ UNCHANGED cliOthers

CliRunUpdate ==
    /\ cliOut = NoOut
    /\ \E entry \in EntryPoints, repo \in RepoArgs, tok \in {None, "arg-token"},
          co \in Collaborators :
         /\ co.rate = "json" /\ co.file = "valid"
         /\ cliArgs' = [entry |-> entry, command |-> "update", repo |-> repo, github_token |-> tok,
                        output |-> None, co |-> co]
         /\ cliOut' = app(entry, "update", update(repo, tok, co, GITHUB_TOKEN))
    /\ UNCHANGED GITHUB_TOKEN
    /\ UNCHANGED cliOthers

CliRunAnalyze ==
    /\ cliOut = NoOut
    /\ \E entry \in EntryPoints, repo \in RepoArgs, tok \in {None, "arg-token"},
          co \in Collaborators :
         /\ co.rate = "json" /\ co.file = "valid" /\ co.save = "ok"
         /\ cliArgs' = [entry |-> entry, command |-> "analyze", repo |-> repo, github_token |-> tok,
                        output |-> None, co |-> co]
         /\ cliOut' = app(entry, "analyze", analyze(repo, tok, co, GITHUB_TOKEN))
    /\ UNCHANGED GITHUB_TOKEN
    /\ UNCHANGED cliOthers

CliRunGithub ==
    /\ cliOut = NoOut
    /\ \E entry \in EntryPoints, repo \in RepoArgs, tok \in {None, "arg-token"},
          out \in {None, "out.yaml"}, co \in Collaborators :
         /\ co.rate = "json" /\ co.file = "valid"
         /\ cliArgs' = [entry |-> entry, command |-> "github", repo |-> repo, github_token |-> tok,
                        output |-> out, co |-> co]
         /\ cliOut' = app(entry, "github", github(repo, tok, out, co, GITHUB_TOKEN))
    /\ UNCHANGED GITHUB_TOKEN
    /\ UNCHANGED cliOthers

CliRunProviders ==
    /\ cliOut = NoOut
    /\ \E entry \in EntryPoints :
         /\ cliArgs' = [entry |-> entry, command |-> "providers", repo |-> None,
                        github_token |-> None, output |-> None, co |-> AllSucceed]
         /\ cliOut' = app(entry, "providers", providers)
    /\ UNCHANGED GITHUB_TOKEN
    /\ UNCHANGED cliOthers

CliRunRateLimit ==
    /\ cliOut = NoOut
    /\ \E entry \in EntryPoints, tok \in {None, "arg-token"}, rate \in {"json", "empty"} :
         LET co == [AllSucceed EXCEPT !.rate = rate]
         IN  /\ cliArgs' = [entry |-> entry, command |-> "rate-limit", repo |-> None, github_token |-> tok,
                            output |-> None, co |-> co]
             /\ cliOut' = app(entry, "rate-limit", rate_limit(tok, co, GITHUB_TOKEN))
    /\ UNCHANGED GITHUB_TOKEN
    /\ UNCHANGED cliOthers

CliRunValidate ==
    /\ cliOut = NoOut
    /\ \E entry \in EntryPoints, file \in {"missing", "valid", "invalid"} :
         LET co == [AllSucceed EXCEPT !.file = file]
         IN  /\ cliArgs' = [entry |-> entry, command |-> "validate", repo |-> None, github_token |-> None,
                            output |-> None, co |-> co]
             /\ cliOut' = app(entry, "validate", validate(co))
    /\ UNCHANGED GITHUB_TOKEN
    /\ UNCHANGED cliOthers

CliNext ==
    \/ CliSetenv
    \/ CliRunInit
    \/ CliRunUpdate
    \/ CliRunAnalyze
    \/ CliRunGithub
    \/ CliRunProviders
    \/ CliRunRateLimit
    \/ CliRunValidate

(***************************************************************************)
(* Walker: ingestion/walker.py                                             *)
(***************************************************************************)
IGNORE_DIRS == {".git", "__pycache__", "node_modules", "venv", "env", ".venv", "build",
                "dist", ".pytest_cache", ".mypy_cache", ".tox", ".eggs", "*.egg-info"}
HIGH_PRIORITY_FILES == {"readme.md", "readme.txt", "readme.rst", "readme"}
CONFIG_FILES == {"requirements.txt", "pyproject.toml", "setup.py", "setup.cfg",
                 "package.json", "tsconfig.json", "dockerfile", "docker-compose.yml",
                 "makefile", ".gitignore", "license", "license.txt", "license.md"}
SourceSuffixes == {".py", ".js", ".ts", ".java", ".cpp", ".c", ".h", ".go", ".rs"}
DocSuffixes == {".md", ".txt", ".rst"}

\* The file names of the model, with str.lower() and Path.suffix tabulated
\* over them.
FileNames == {"README.md", "readme", "Makefile", "setup.py", "notes.md", "main.py",
              "App.JS", "data.bin"}
lower(name) ==
    CASE name = "README.md" -> "readme.md"
      [] name = "Makefile" -> "makefile"
      [] name = "App.JS" -> "app.js"
      [] name = "VERSION" -> "version"
      [] name = ".JS" -> ".js"
      [] OTHER -> name
suffix(name) ==
    CASE name \in {"App.JS"} -> ".JS"
      [] name \in {"data.bin"} -> ".bin"
      [] name \in {"util.c"} -> ".c"
      [] name \in {"util.h"} -> ".h"
      [] name \in {"README.md", "notes.md", "version.md"} -> ".md"
      [] name \in {"setup.py", "main.py", "test_core.py"} -> ".py"
      [] name \in {"requirements.txt", "requires.txt"} -> ".txt"
      [] name \in {"build.yml"} -> ".yml"
      [] OTHER -> ""

\* Path.name: the last part.
NameOf(path) == path[Len(path)]

\* walker.py 59-70.
calculate_priority(path) ==
    LET name == lower(NameOf(path))
        suf == lower(suffix(NameOf(path)))
    IN  IF name \in HIGH_PRIORITY_FILES THEN 10
        ELSE IF name \in CONFIG_FILES THEN 8
        ELSE IF suf \in SourceSuffixes THEN 5
        ELSE IF suf \in DocSuffixes THEN 7
        ELSE 1

\* walker.py 73-75: every part of the path is tested, the parts of the root
\* included (rglob yields root / relative).
should_ignore_path(path) == \E i \in 1..Len(path) : path[i] \in IGNORE_DIRS

\* Where the root directory lives.
Roots == {<<"/", "home", "proj">>, <<"/", "home", "build", "proj">>, <<"/", "srv", "env">>}

\* What can be found below the root: [rel, is_file, readable], rel being the
\* path relative to the root.
EntryOf(rel, is_file, readable) == [rel |-> rel, is_file |-> is_file, readable |-> readable]
Entries ==
    {EntryOf(<<n>>, TRUE, TRUE) : n \in FileNames}
    \cup {EntryOf(<<"src">>, FALSE, TRUE),
          EntryOf(<<"src", "main.py">>, TRUE, TRUE),
          EntryOf(<<"src", "data.bin">>, TRUE, FALSE),
          EntryOf(<<"docs", "README.md">>, TRUE, TRUE),
          EntryOf(<<"node_modules", "App.JS">>, TRUE, TRUE),
          EntryOf(<<"env">>, TRUE, TRUE),
          EntryOf(<<"pkg.egg-info", "requires.txt">>, TRUE, TRUE)}

NoRoot == <<>>
NotCollected == [collected |-> FALSE]

\* A descending sort that is not stable: a file goes in front of the files
\* of its own priority.
InsertBeforeEquals(sorted, f) ==
    LET after == {i \in 1..Len(sorted) : sorted[i].priority > f.priority}
        k == Cardinality(after)
    IN  SubSeq(sorted, 1, k) \o <<f>> \o SubSeq(sorted, k + 1, Len(sorted))
\* list.sort(key=lambda f: f.priority, reverse=True): descending and stable.
InsertByPriority(sorted, f) ==
    LET after == {i \in 1..Len(sorted) : sorted[i].priority >= f.priority}
        k == Cardinality(after)
    IN  SubSeq(sorted, 1, k) \o <<f>> \o SubSeq(sorted, k + 1, Len(sorted))
RECURSIVE SortDescending(_)
SortDescending(files) ==
    IF files = <<>> THEN <<>>
    ELSE InsertByPriority(SortDescending(SubSeq(files, 1, Len(files) - 1)), files[Len(files)])

\* walker.py 81-89: the loop over root.rglob('*').
RECURSIVE Collected(_, _)
Collected(root, listing) ==
    IF listing = <<>> THEN <<>>
    ELSE LET e == listing[Len(listing)]
             path == root \o e.rel
             before == Collected(root, SubSeq(listing, 1, Len(listing) - 1))
         IN  IF e.is_file /\ ~should_ignore_path(path) /\ e.readable
               THEN Append(before, [path |-> path, priority |-> calculate_priority(path)])
               ELSE before

\* walker.py 78-92.
collect_files(root, listing) == SortDescending(Collected(root, listing))

WkInit ==
    /\ wkRoot = NoRoot
    /\ wkListing = <<>>
    /\ wkFiles = NotCollected

\* The directory the caller passes (ingest_local_repository resolves it to
\* an absolute path first, walker.py 162).
WkChooseRoot ==
    /\ wkRoot = NoRoot
    /\ \E r \in Roots : wkRoot' = r
    /\ UNCHANGED <<wkListing, wkFiles>>
    /\ UNCHANGED wkOthers

\* One more entry exists below the root; rglob will yield it after the others.
WkCreateEntry ==
    /\ wkRoot # NoRoot
    /\ wkFiles = NotCollected
    /\ Len(wkListing) < MaxEntries
    /\ \E e \in Entries :
         /\ \A i \in 1..Len(wkListing) : wkListing[i].rel # e.rel
         /\ wkListing' = Append(wkListing, e)
    /\ UNCHANGED <<wkRoot, wkFiles>>
    /\ UNCHANGED wkOthers

WkCollectFiles ==
    /\ wkRoot # NoRoot
    /\ wkFiles = NotCollected
    /\ wkFiles' = [collected |-> TRUE, files |-> collect_files(wkRoot, wkListing)]
    /\ UNCHANGED <<wkRoot, wkListing>>
    /\ UNCHANGED wkOthers

WkNext ==
    \/ WkChooseRoot
    \/ WkCreateEntry
    \/ WkCollectFiles

(***************************************************************************)
(* Document generation and YAML round trip: mcp/generator.py, schemas.py   *)
(***************************************************************************)
\* Python values, tagged by type.
PyStr(text) == [t |-> "str", v |-> text]
PyNone == [t |-> "NoneType"]
PyEnum(cls, value) == [t |-> "enum", cls |-> cls, v |-> value]
PyDatetime(micro) ==
    [t |-> "datetime", wall |-> "2024-05-01 12:00:00", microsecond |-> micro, utcoffset |-> "+00:00"]
StrList(texts) == [i \in 1..Len(texts) |-> PyStr(texts[i])]

\* schemas.py 10-25.
ProjectType == {"cli", "api", "web_app", "ml", "automation", "library", "other"}
ProjectStatus == {"prototype", "mvp", "production"}

\* Texts a document can carry besides ordinary sentences: a README heading
\* or a backend's answer may read like a YAML number, boolean, null or date,
\* or hold YAML indicators.
TrickyTexts == {"1.0", "true", "null", "", "2024-01-01", "# Title", "key: value", " padded"}
ProjectNames == {"Test Project"} \cup TrickyTexts
TrickyInsights ==
    [problem |-> "true", solution |-> "null", value_proposition |-> "1.0",
     target_users |-> "", key_features |-> <<"2024-01-01", "key: value">>,
     current_focus |-> "# Title", future_plans |-> " padded"]
InsightsInputs == {MockInsights, OpenAI_fallback_insights, TrickyInsights}
\* signals.tech_stack as extract_tech_stack returns it: sorted.
TechStacks == {<<>>, <<"FastAPI", "Python">>}
\* datetime.now(timezone.utc): with and without a fraction of a second.
Nows == {PyDatetime("000000"), PyDatetime("123456")}

\* generator.py 29-31; no text of the model is longer than 200 characters.
generate_one_liner(insights) == insights.value_proposition

\* generator.py 34-56, project_name being what infer_project_name returned.
generate_mcp(project_name, signals, insights, now) ==
    [project_name |-> PyStr(project_name),
     one_liner |-> PyStr(generate_one_liner(insights)),
     problem |-> PyStr(insights.problem),
     solution |-> PyStr(insights.solution),
     value_proposition |-> PyStr(insights.value_proposition),
     tech_stack |-> StrList(signals.tech_stack),
     project_type |-> PyEnum("ProjectType", signals.project_type),
     status |-> PyEnum("ProjectStatus", signals.maturity),
     key_features |-> StrList(insights.key_features),
     target_users |-> PyStr(insights.target_users),
     current_focus |-> PyStr(insights.current_focus),
     future_plans |-> PyStr(insights.future_plans),
     risks_or_gaps |-> PyNone,
     metadata |-> [version |-> PyStr("1.0"), generated_at |-> now]]

\* ---- yaml.dump
\* The tag PyYAML's implicit resolver gives a plain scalar.
ImplicitResolver(text) ==
    CASE text \in {"true", "false", "yes", "no"} -> "bool"
      [] text \in {"null", "~", ""} -> "null"
      [] text = "1.0" -> "float"
      [] text \in {"2024-01-01", "2024-05-01 12:00:00+00:00",
                   "2024-05-01 12:00:00.123456+00:00"} -> "timestamp"
      [] OTHER -> "str"

\* Emitter.analyze_scalar: whether the text may be written without quotes
\* (no leading or trailing space, no leading indicator, no ": " or " #").
AllowPlain(text) == text \notin {"", "# Title", "key: value", " padded"}

\* Always plain.
NeverQuotes(text) == "plain"
\* Serializer and Emitter.choose_scalar_style for a str: plain only when the
\* plain text would resolve to a str again.
choose_scalar_style(text) ==
    IF ImplicitResolver(text) = "str" /\ AllowPlain(text) THEN "plain" ELSE "quoted"

\* datetime.isoformat(' ') (SafeRepresenter.represent_datetime).
isoformat(dt) ==
    IF dt.microsecond = "000000" THEN "2024-05-01 12:00:00+00:00"
    ELSE "2024-05-01 12:00:00.123456+00:00"

ScalarNode(text, style) == [text |-> text, style |-> style]

\* Representer.represent_data for the values a dumped document holds.
represent_data(value) ==
    CASE value.t = "str" -> ScalarNode(value.v, choose_scalar_style(value.v))
      [] value.t = "NoneType" -> ScalarNode("null", "plain")
      [] value.t = "datetime" -> ScalarNode(isoformat(value), "plain")
      [] value.t = "enum" -> ScalarNode(value.v, "python/object/apply")
represent_list(values) == [i \in 1..Len(values) |-> represent_data(values[i])]

\* generator.py 63-66: enum members are replaced by their values.
enum_value(value) == IF value.t = "enum" THEN PyStr(value.v) ELSE value

\* generator.py 59-70: model_dump, the enum replacement, yaml.dump.
save_mcp(mcp) ==
    LET data == [mcp EXCEPT !.project_type = enum_value(@), !.status = enum_value(@)]
    IN  [project_name |-> represent_data(data.project_name),
         one_liner |-> represent_data(data.one_liner),
         problem |-> represent_data(data.problem),
         solution |-> represent_data(data.solution),
         value_proposition |-> represent_data(data.value_proposition),
         tech_stack |-> represent_list(data.tech_stack),
         project_type |-> represent_data(data.project_type),
         status |-> represent_data(data.status),
         key_features |-> represent_list(data.key_features),
         target_users |-> represent_data(data.target_users),
         current_focus |-> represent_data(data.current_focus),
         future_plans |-> represent_data(data.future_plans),
         risks_or_gaps |-> represent_data(data.risks_or_gaps),
         metadata |-> [version |-> represent_data(data.metadata.version),
                       generated_at |-> represent_data(data.metadata.generated_at)]]

\* ---- yaml.safe_load
\* SafeConstructor.construct_yaml_timestamp: a date, or an aware datetime.
construct_yaml_timestamp(text) ==
    CASE text = "2024-05-01 12:00:00+00:00" -> PyDatetime("000000")
      [] text = "2024-05-01 12:00:00.123456+00:00" -> PyDatetime("123456")
      [] OTHER -> [t |-> "date", v |-> text]

\* A quoted scalar is a str; a plain one is what its implicit tag says.
construct_scalar(node) ==
    IF node.style = "quoted" THEN PyStr(node.text)
    ELSE IF node.style # "plain" THEN [t |-> "ConstructorError"]
    ELSE CASE ImplicitResolver(node.text) = "str" -> PyStr(node.text)
           [] ImplicitResolver(node.text) = "null" -> PyNone
           [] ImplicitResolver(node.text) = "timestamp" -> construct_yaml_timestamp(node.text)
           [] OTHER -> [t |-> ImplicitResolver(node.text), v |-> node.text]
construct_list(nodes) == [i \in 1..Len(nodes) |-> construct_scalar(nodes[i])]

ListKeys == {"tech_stack", "key_features"}
safe_load(file) ==
    [k \in DOMAIN file |->
        IF k \in ListKeys THEN construct_list(file[k])
        ELSE IF k = "metadata" THEN [j \in DOMAIN file[k] |-> construct_scalar(file[k][j])]
        ELSE construct_scalar(file[k])]

\* ---- MCP(**data): schemas.py 28-50.  A str field takes a str only, an
\* enum field a value of the enumeration, generated_at a datetime.
IsStr(value) == value.t = "str"
IsStrList(values) == \A i \in 1..Len(values) : IsStr(values[i])
\* An enum field that takes any str.
AnyStrIsMember(value, members) == IsStr(value)
IsEnumValue(value, members) == IsStr(value) /\ value.v \in members
\* generated_at's default_factory: the moment the object is built.
LoadTime == [t |-> "datetime", wall |-> "now", microsecond |-> "000000", utcoffset |-> "+00:00"]
\* Fields declared with Field(...) are required; the others have defaults.
RequiredFields == {"project_name", "one_liner", "problem", "solution", "value_proposition",
                   "project_type", "status", "target_users", "current_focus",
                   "future_plans", "metadata"}
Has(data, key) == key \in DOMAIN data
MCP_validates(data) ==
    /\ \A k \in RequiredFields : Has(data, k)
    /\ IsStr(data.project_name) /\ IsStr(data.one_liner) /\ IsStr(data.problem)
    /\ IsStr(data.solution) /\ IsStr(data.value_proposition)
    /\ Has(data, "tech_stack") => IsStrList(data.tech_stack)
    /\ IsEnumValue(data.project_type, ProjectType)
    /\ IsEnumValue(data.status, ProjectStatus)
    /\ Has(data, "key_features") => IsStrList(data.key_features)
    /\ IsStr(data.target_users) /\ IsStr(data.current_focus) /\ IsStr(data.future_plans)
    /\ Has(data, "risks_or_gaps") => (IsStr(data.risks_or_gaps) \/ data.risks_or_gaps = PyNone)
    /\ Has(data.metadata, "version") /\ IsStr(data.metadata.version)
    /\ Has(data.metadata, "generated_at") => data.metadata.generated_at.t = "datetime"
\* The validated object: enum members for the two enum fields, the declared
\* defaults for the optional fields that are absent.
MCP(data) ==
    [project_name |-> data.project_name,
     one_liner |-> data.one_liner,
     problem |-> data.problem,
     solution |-> data.solution,
     value_proposition |-> data.value_proposition,
     tech_stack |-> IF Has(data, "tech_stack") THEN data.tech_stack ELSE <<>>,
     project_type |-> PyEnum("ProjectType", data.project_type.v),
     status |-> PyEnum("ProjectStatus", data.status.v),
     key_features |-> IF Has(data, "key_features") THEN data.key_features ELSE <<>>,
     target_users |-> data.target_users,
     current_focus |-> data.current_focus,
     future_plans |-> data.future_plans,
     risks_or_gaps |-> IF Has(data, "risks_or_gaps") THEN data.risks_or_gaps ELSE PyNone,
     metadata |-> [version |-> data.metadata.version,
                   generated_at |-> IF Has(data.metadata, "generated_at")
                                      THEN data.metadata.generated_at ELSE LoadTime]]

\* generator.py 73-77.
load_mcp(file) ==
    LET data == safe_load(file)
    IN  IF MCP_validates(data) THEN [outcome |-> "returned", mcp |-> MCP(data)]
        ELSE [outcome |-> "ValidationError"]

NoDoc == [generated |-> FALSE]
NoFile == [written |-> FALSE]
NotLoaded == [outcome |-> "none"]
NoEdit == [kind |-> "none"]

\* A file with one key removed.
Without(mapping, key) == [k \in DOMAIN mapping \ {key} |-> mapping[k]]
\* Texts that name no member of either enumeration.
NonMembers == {"CLI", "desktop", ""}
\* What a hand edit of a saved file can do to it.
Edits ==
    {[kind |-> "remove", key |-> k] : k \in DOMAIN save_mcp(generate_mcp("Test Project",
          [project_type |-> "cli", maturity |-> "mvp", tech_stack |-> <<>>], MockInsights,
          PyDatetime("000000")))}
    \cup {[kind |-> "remove_version"], [kind |-> "remove_generated_at"]}
    \cup {[kind |-> "repeat_tech_stack_entry"]}
    \cup {[kind |-> "replace", key |-> k, text |-> x] : k \in {"project_type", "status"}, x \in NonMembers}
Edited(file, edit) ==
    CASE edit.kind = "remove" -> Without(file, edit.key)
      [] edit.kind = "remove_version" ->
            [file EXCEPT !.metadata = Without(@, "version")]
      [] edit.kind = "remove_generated_at" ->
            [file EXCEPT !.metadata = Without(@, "generated_at")]
      [] edit.kind = "replace" ->
            [file EXCEPT ![edit.key] = ScalarNode(edit.text, choose_scalar_style(edit.text))]
      [] edit.kind = "repeat_tech_stack_entry" ->
            [file EXCEPT !.tech_stack = <<ScalarNode("Python", choose_scalar_style("Python")),
                                          ScalarNode("Python", choose_scalar_style("Python"))>>]

McInit ==
    /\ mcDoc = NoDoc
    /\ mcFile = NoFile
    /\ mcLoaded = NotLoaded
    /\ mcEdit = NoEdit
    /\ mcValidated = NoOut

McGenerate ==
    /\ mcDoc = NoDoc
    /\ \E name \in ProjectNames, insights \in InsightsInputs, pt \in ProjectType,
          st \in ProjectStatus, stack \in TechStacks, now \in Nows :
         mcDoc' = generate_mcp(name, [project_type |-> pt, maturity |-> st, tech_stack |-> stack],
                               insights, now)
    /\ UNCHANGED <<mcFile, mcLoaded, mcEdit, mcValidated>>
    /\ UNCHANGED mcOthers

McSave ==
    /\ mcDoc # NoDoc
    /\ mcFile = NoFile
    /\ mcFile' = save_mcp(mcDoc)
    /\ UNCHANGED <<mcDoc, mcLoaded, mcEdit, mcValidated>>
    /\ UNCHANGED mcOthers

McLoad ==
    /\ mcFile # NoFile
    /\ mcLoaded = NotLoaded
    /\ mcLoaded' = load_mcp(mcFile)
    /\ UNCHANGED <<mcDoc, mcFile, mcEdit, mcValidated>>
    /\ UNCHANGED mcOthers

\* The saved file is edited by hand before it is validated.
McEditFile ==
    /\ mcFile # NoFile
    /\ mcEdit = NoEdit
    /\ mcValidated = NoOut
    /\ \E edit \in Edits :
         /\ mcEdit' = edit
         /\ mcFile' = Edited(mcFile, edit)
    /\ UNCHANGED <<mcDoc, mcLoaded, mcValidated>>
    /\ UNCHANGED mcOthers

\* validate <file> on the file (main.py 348-365), the program started with
\* its module imported so that the command is registered: the path exists,
\* load_mcp returns or raises.
McValidate ==
    /\ mcFile # NoFile
    /\ mcValidated = NoOut
    /\ mcLoaded' = load_mcp(mcFile)
    /\ mcValidated' = app("imported", "validate",
                           validate([file |-> IF load_mcp(mcFile).outcome = "returned"
                                                THEN "valid" ELSE "invalid"]))
    /\ UNCHANGED <<mcDoc, mcFile, mcEdit>>
    /\ UNCHANGED mcOthers

VaNext ==
    \/ McGenerate
    \/ McSave
    \/ McEditFile
    \/ McValidate

McNext ==
    \/ McGenerate
    \/ McSave
    \/ McLoad

(***************************************************************************)
(* Signal extraction: analyzers/signals.py                                 *)
(***************************************************************************)
LanguageExtensions == {".py", ".js", ".ts", ".java", ".cpp", ".c", ".h", ".go", ".rs", ".rb",
                       ".php", ".cs", ".scala", ".kt", ".swift", ".dart"}
LANGUAGE_EXTENSIONS(ext) ==
    CASE ext = ".py" -> "Python" [] ext = ".js" -> "JavaScript" [] ext = ".ts" -> "TypeScript"
      [] ext = ".java" -> "Java" [] ext = ".cpp" -> "C++" [] ext \in {".c", ".h"} -> "C"
      [] ext = ".go" -> "Go" [] ext = ".rs" -> "Rust" [] ext = ".rb" -> "Ruby"
      [] ext = ".php" -> "PHP" [] ext = ".cs" -> "C#" [] ext = ".scala" -> "Scala"
      [] ext = ".kt" -> "Kotlin" [] ext = ".swift" -> "Swift" [] ext = ".dart" -> "Dart"
FrameworkKeywords == {"flask", "django", "fastapi", "typer", "click", "streamlit", "react",
                      "vue", "angular", "express", "spring", "tensorflow", "pytorch",
                      "pandas", "numpy"}
FRAMEWORK_KEYWORDS(keyword) ==
    CASE keyword = "flask" -> "Flask" [] keyword = "django" -> "Django"
      [] keyword = "fastapi" -> "FastAPI" [] keyword = "typer" -> "Typer"
      [] keyword = "click" -> "Click" [] keyword = "streamlit" -> "Streamlit"
      [] keyword = "react" -> "React" [] keyword = "vue" -> "Vue"
      [] keyword = "angular" -> "Angular" [] keyword = "express" -> "Express"
      [] keyword = "spring" -> "Spring" [] keyword = "tensorflow" -> "TensorFlow"
      [] keyword = "pytorch" -> "PyTorch" [] keyword = "pandas" -> "Pandas"
      [] keyword = "numpy" -> "NumPy"

\* The order Python's sorted() gives the language and framework names.
CodePointOrder ==
    <<"Angular", "C", "C#", "C++", "Click", "Dart", "Django", "Express", "FastAPI", "Flask",
      "Go", "Java", "JavaScript", "Kotlin", "NumPy", "PHP", "Pandas", "PyTorch", "Python",
      "React", "Ruby", "Rust", "Scala", "Spring", "Streamlit", "Swift", "TensorFlow",
      "TypeScript", "Typer", "Vue">>
\* sorted(list(names)) for a set of names.
sorted(names) == SelectSeq(CodePointOrder, LAMBDA x : x \in names)
Range(seq) == {seq[i] : i \in 1..Len(seq)}

\* A FileContent: the path as a sequence of parts, and the text.
SgFile(path, content) == [path |-> path, content |-> content]

\* `needle in part.lower()` for the parts of the model's paths, restricted
\* to the needles signals.py looks for in paths.
NeedlesIn(part) ==
    CASE part = "README.md" -> {"readme"}
      [] part = "main.py" -> {"main.py"}
      [] part = "web" -> {"web"}
      [] part = "tests" -> {"test"}
      [] part = "test_core.py" -> {"test"}
      [] part = ".github" -> {".github"}
      [] part = "build.yml" -> {"ml"}
      [] part = "docs" -> {"doc"}
      [] part = "version.md" -> {"version"}
      [] part = "api" -> {"api"}
      [] part = "VERSION" -> {"version"}
      [] part = "lib" -> {"lib"}
      [] part = "scripts" -> {"script"}
      [] OTHER -> {}
\* `needle in str(path).lower()`: no needle holds a separator, so it lies
\* within one part.
PathContains(path, needle) == \E i \in 1..Len(path) : needle \in NeedlesIn(path[i])
NameContains(path, needle) == needle \in NeedlesIn(NameOf(path))

\* `keyword in content.lower()` for the framework keywords.
Mentions(content) ==
    CASE content = "flask==2.0 Typer>=0.9" -> {"flask", "typer"}
      [] content = "import typer; from flask import Flask" -> {"flask", "typer"}
      [] content = "import React from 'react'" -> {"react"}
      [] content = "import numpy as np; import clickhouse_driver" -> {"click", "numpy"}
      [] content = "flask" -> {"flask"}
      [] OTHER -> {}
\* `'import ' + keyword in content.lower() or 'from ' + keyword in content.lower()`.
Imports(content) ==
    CASE content = "import typer; from flask import Flask" -> {"flask", "typer"}
      [] content = "import React from 'react'" -> {"react"}
      [] content = "import numpy as np; import clickhouse_driver" -> {"click", "numpy"}
      [] OTHER -> {}

SnapshotFiles ==
    {SgFile(<<"/", "work", "repo", "README.md">>, "# Tool"),
     SgFile(<<"/", "work", "repo", "requirements.txt">>, "flask==2.0 Typer>=0.9"),
     SgFile(<<"/", "work", "repo", "src", "main.py">>, "import typer; from flask import Flask"),
     SgFile(<<"/", "work", "repo", "web", "App.JS">>, "import React from 'react'"),
     SgFile(<<"/", "work", "repo", "tests", "test_core.py">>, "import numpy as np; import clickhouse_driver"),
     SgFile(<<"/", "work", "repo", ".github", "workflows", "build.yml">>, "run: make"),
     SgFile(<<"/", "work", "repo", "docs", "version.md">>, "flask"),
     SgFile(<<"/", "work", "repo", "api", "VERSION">>, "1.0"),
     SgFile(<<"/", "work", "repo", "lib", "util.c">>, "int main(void)"),
     SgFile(<<"/", "work", "repo", "scripts", "util.h">>, "int main(void)")}

\* The language names in file order, one per file that has a known extension.
RECURSIVE LanguageHits(_)
LanguageHits(files) ==
    IF files = <<>> THEN <<>>
    ELSE LET ext == lower(suffix(NameOf(files[1].path)))
         IN  (IF ext \in LanguageExtensions THEN <<LANGUAGE_EXTENSIONS(ext)>> ELSE <<>>)
             \o LanguageHits(Tail(files))
\* The hits as found, unsorted and with repetitions.
LanguagesInFileOrder(files) == LanguageHits(files)
\* signals.py 53-60.
extract_languages(files) == sorted(Range(LanguageHits(files)))

\* signals.py 67-77: the frameworks one file adds.
FrameworksOf(file) ==
    IF lower(NameOf(file.path)) \in {"requirements.txt", "pyproject.toml", "package.json"}
      THEN {FRAMEWORK_KEYWORDS(k) : k \in Mentions(file.content)}
    ELSE IF lower(suffix(NameOf(file.path))) \in {".py", ".js", ".ts"}
      THEN {FRAMEWORK_KEYWORDS(k) : k \in Imports(file.content)}
    ELSE {}
\* signals.py 63-78.
extract_frameworks(files) == sorted(UNION {FrameworksOf(files[i]) : i \in 1..Len(files)})

\* The API markers tried before the CLI markers.
ApiMarkersFirst(files) ==
    LET AnyFile(P(_)) == \E i \in 1..Len(files) : P(files[i].path)
    IN  IF AnyFile(LAMBDA p : PathContains(p, "api") \/ NameContains(p, "app.py")
                                \/ NameContains(p, "server.js")) THEN "api"
        ELSE IF AnyFile(LAMBDA p : PathContains(p, "cli") \/ NameContains(p, "main.py")
                                     \/ NameContains(p, "main.js")) THEN "cli"
        ELSE IF AnyFile(LAMBDA p : PathContains(p, "web") \/ NameContains(p, "index.html"))
          THEN "web_app"
        ELSE IF AnyFile(LAMBDA p : PathContains(p, "ml") \/ PathContains(p, "model")) THEN "ml"
        ELSE IF AnyFile(LAMBDA p : PathContains(p, "script") \/ PathContains(p, "automation"))
          THEN "automation"
        ELSE IF AnyFile(LAMBDA p : PathContains(p, "lib") \/ PathContains(p, "library"))
          THEN "library"
        ELSE "other"
\* signals.py 81-110.
infer_project_type(files) ==
    LET AnyFile(P(_)) == \E i \in 1..Len(files) : P(files[i].path)
    IN  IF AnyFile(LAMBDA p : PathContains(p, "cli") \/ NameContains(p, "main.py")
                                \/ NameContains(p, "main.js")) THEN "cli"
        ELSE IF AnyFile(LAMBDA p : PathContains(p, "api") \/ NameContains(p, "app.py")
                                     \/ NameContains(p, "server.js")) THEN "api"
        ELSE IF AnyFile(LAMBDA p : PathContains(p, "web") \/ NameContains(p, "index.html"))
          THEN "web_app"
        ELSE IF AnyFile(LAMBDA p : PathContains(p, "ml") \/ PathContains(p, "model")) THEN "ml"
        ELSE IF AnyFile(LAMBDA p : PathContains(p, "script") \/ PathContains(p, "automation"))
          THEN "automation"
        ELSE IF AnyFile(LAMBDA p : PathContains(p, "lib") \/ PathContains(p, "library"))
          THEN "library"
        ELSE "other"

\* signals.py 115-118.
has_tests(files) == \E i \in 1..Len(files) : PathContains(files[i].path, "test")
has_ci(files) ==
    \E i \in 1..Len(files) : PathContains(files[i].path, "ci") \/ PathContains(files[i].path, ".github")
has_docs(files) ==
    \E i \in 1..Len(files) : PathContains(files[i].path, "doc") \/ PathContains(files[i].path, "readme")
has_version(files) == \E i \in 1..Len(files) : NameContains(files[i].path, "version")

\* MVP whenever tests and docs are there but CI is not.
MvpOnlyWithoutCi(tests, ci, docs, version) ==
    IF tests /\ ci /\ docs /\ version THEN "production"
    ELSE IF tests /\ docs /\ ~ci THEN "mvp"
    ELSE "prototype"
\* signals.py 120-129.
MaturityOf(tests, ci, docs, version) ==
    IF tests /\ ci /\ docs /\ version THEN "production"
    ELSE IF tests /\ docs THEN "mvp"
    ELSE "prototype"
\* signals.py 113-129.
infer_maturity(files) ==
    MaturityOf(has_tests(files), has_ci(files), has_docs(files), has_version(files))

\* A commit date as the walker stores it: ISO text that parses to a wall
\* clock reading (hours since the epoch) with or without a UTC offset
\* (hours), or text that datetime.fromisoformat rejects.
IsoDate(wall, aware, offset) == [iso |-> TRUE, wall |-> wall, aware |-> aware, offset |-> offset]
NotIsoDate == [iso |-> FALSE]
GitCommit(hash, date) == [hash |-> hash, date |-> date]

\* datetime.now(timezone.utc), in hours since the epoch.
ClockReadings == {480000, 480001}
\* Ages, in hours, of the newest commit when the clock reads 480000: in the
\* future, now, and either side of 30 and of 90 days.
CommitAges == {0 - 5, 0, 719, 720, 2159, 2160}
CommitDates ==
    {IsoDate(480000 - age, FALSE, 0) : age \in CommitAges}
    \cup {IsoDate(480000 - age + 5, TRUE, 5) : age \in CommitAges}
    \cup {NotIsoDate}
CommitLists ==
    {<<GitCommit("c1", d)>> : d \in CommitDates}
    \cup {<<GitCommit("c1", IsoDate(480000, FALSE, 0)), GitCommit("c0", NotIsoDate)>>}

\* signals.py 138: the parsed datetime, or ValueError.
fromisoformat(date) ==
    IF date.iso THEN [raised |-> "none", wall |-> date.wall, aware |-> date.aware, offset |-> date.offset]
    ELSE [raised |-> "ValueError"]
\* The instant of a datetime in UTC hours; signals.py 145-146 reads a naive
\* one as UTC.
UtcHours(dt) == IF dt.aware THEN dt.wall - dt.offset ELSE dt.wall
\* timedelta.days of (now - then): whole days, rounded down.
DaysBetween(now, then) == (now - then) \div 24

\* The tiers with both limits counted in the lower tier.
ActivityOfInclusive(days_since) ==
    IF days_since <= 30 THEN "high"
    ELSE IF days_since <= 90 THEN "medium"
    ELSE "low"
\* signals.py 150-155.
ActivityOf(days_since) ==
    IF days_since < 30 THEN "high"
    ELSE IF days_since < 90 THEN "medium"
    ELSE "low"
\* signals.py 132-158.
infer_activity_level(commits, now) ==
    IF commits = <<>> THEN "low"
    ELSE LET last_commit_date == fromisoformat(commits[1].date)
         IN  IF last_commit_date.raised = "ValueError" THEN "unknown"
             ELSE ActivityOf(DaysBetween(now, UtcHours(last_commit_date)))

\* signals.py 161-163.
extract_tech_stack(languages, frameworks) == sorted(Range(languages \o frameworks))

\* signals.py 166-184.
extract_signals(files, commits, now) ==
    LET languages == extract_languages(files)
        frameworks == extract_frameworks(files)
    IN  [languages |-> languages,
         frameworks |-> frameworks,
         project_type |-> infer_project_type(files),
         maturity |-> infer_maturity(files),
         activity_level |-> infer_activity_level(commits, now),
         tech_stack |-> extract_tech_stack(languages, frameworks)]

NoSignals == [extracted |-> FALSE]

SgInit ==
    /\ sgFiles = <<>>
    /\ sgCommits = <<>>
    /\ sgFirst = NoSignals
    /\ sgSecond = NoSignals

\* The snapshot holds one more file.
SgAddFile ==
    /\ sgFirst = NoSignals
    /\ Len(sgFiles) < MaxSnapshotFiles
    /\ \E f \in SnapshotFiles :
         /\ \A i \in 1..Len(sgFiles) : sgFiles[i].path # f.path
         /\ sgFiles' = Append(sgFiles, f)
    /\ UNCHANGED <<sgCommits, sgFirst, sgSecond>>
    /\ UNCHANGED sgOthers

\* The snapshot's root is a checkout with history.
SgSetCommits ==
    /\ sgFirst = NoSignals
    /\ sgCommits = <<>>
    /\ \E commits \in CommitLists : sgCommits' = commits
    /\ UNCHANGED <<sgFiles, sgFirst, sgSecond>>
    /\ UNCHANGED sgOthers

SgExtractSignals ==
    /\ sgFirst = NoSignals
    /\ \E now \in ClockReadings :
         sgFirst' = [extracted |-> TRUE, now |-> now,
                     signals |-> extract_signals(sgFiles, sgCommits, now)]
    /\ UNCHANGED <<sgFiles, sgCommits, sgSecond>>
    /\ UNCHANGED sgOthers

\* extract_signals is run a second time on the same snapshot.
SgExtractAgain ==
    /\ sgFirst # NoSignals
    /\ sgSecond = NoSignals
    /\ \E now \in ClockReadings :
         /\ now >= sgFirst.now
         /\ sgSecond' = [extracted |-> TRUE, now |-> now,
                         signals |-> extract_signals(sgFiles, sgCommits, now)]
    /\ UNCHANGED <<sgFiles, sgCommits, sgFirst>>
    /\ UNCHANGED sgOthers

SgNext ==
    \/ SgAddFile
    \/ SgSetCommits
    \/ SgExtractSignals
    \/ SgExtractAgain

(***************************************************************************)
(* GitHub API client: github/client.py, github/models.py                   *)
(***************************************************************************)
OwnerNames == {<<"o">>, <<"m", "c", "p", "-", "o", "r", "g">>}
RepoNames == {<<"r">>,
              <<"t", "o", "o", "l", ".", "p", "y">>,
              <<"g", "i", "t">>,
              <<"x", ".", "g", "i", "t", "h", "u", "b">>}
HttpsForm(o, r) == <<"h", "t", "t", "p", "s", ":", "/", "/", "g", "i", "t", "h", "u", "b", ".", "c", "o", "m", "/">> \o o \o <<"/">> \o r
HttpsGitForm(o, r) == HttpsForm(o, r) \o DotGit
SshForm(o, r) == <<"g", "i", "t", "@", "g", "i", "t", "h", "u", "b", ".", "c", "o", "m", ":">> \o o \o <<"/">> \o r \o DotGit
OtherUrls == {
    <<"h", "t", "t", "p", "s", ":", "/", "/", "g", "i", "t", "h", "u", "b", ".", "c", "o", "m", "/", "o", "/", "r", "/">>,
    <<"h", "t", "t", "p", "s", ":", "/", "/", "g", "i", "t", "h", "u", "b", ".", "c", "o", "m", "/", "o", "/", "r", ".", "g", "i", "t", "/">>,
    <<"h", "t", "t", "p", "s", ":", "/", "/", "g", "i", "t", "h", "u", "b", ".", "c", "o", "m", "/", "o", "/", "r", "/", "t", "r", "e", "e", "/", "m", "a", "i", "n">>,
    <<"h", "t", "t", "p", "s", ":", "/", "/", "g", "i", "t", "h", "u", "b", ".", "c", "o", "m", "/", "o", "/", "r", "\n">>,
    <<"h", "t", "t", "p", ":", "/", "/", "w", "w", "w", ".", "g", "i", "t", "h", "u", "b", ".", "c", "o", "m", "/", "o", "/", "r">>,
    <<"h", "t", "t", "p", "s", ":", "/", "/", "g", "i", "t", "l", "a", "b", ".", "c", "o", "m", "/", "o", "/", "r">>,
    <<"h", "t", "t", "p", "s", ":", "/", "/", "g", "i", "t", "h", "u", "b", ".", "c", "o", "m", "/", "o">>,
    <<"h", "t", "t", "p", "s", ":", "/", "/", "g", "i", "t", "h", "u", "b", ".", "c", "o", "m", "/">>,
    <<"g", "i", "t", "@", "g", "i", "t", "h", "u", "b", ".", "c", "o", "m", ":", "r", ".", "g", "i", "t">>,
    <<"/", "l", "o", "c", "a", "l", "/", "p", "a", "t", "h">>,
    <<>>}
GmUrls ==
    {HttpsForm(o, r) : o \in OwnerNames, r \in RepoNames}
    \cup {HttpsGitForm(o, r) : o \in OwnerNames, r \in RepoNames}
    \cup {SshForm(o, r) : o \in OwnerNames, r \in RepoNames}
    \cup OtherUrls

\* What session.get, raise_for_status and response.json give for one fetch:
\* the decoded body, or a requests.RequestException (no connection, an HTTP
\* error status, a body that is not JSON).
RequestFailed == [status |-> "RequestException"]
Body(data) == [status |-> "ok", data |-> data]
\* Hours between the last push and the clock reading 480000: either side of
\* 7, 30 and 90 days, and the 1 and 40 days of the tests.
PushAges == {0, 24, 191, 192, 743, 744, 960, 2183, 2184}
RepositoryBodies == {Body([stargazers_count |-> 100, forks_count |-> 20,
                           pushed_at |-> [wall |-> 480000 - age, zone |-> "Z"]]) : age \in PushAges}
ContributorBodies ==
    {Body(<<>>),
     Body(<<[login |-> "ann", contributions |-> 9, type |-> "User"]>>),
     Body(<<[login |-> "ann", contributions |-> 9, type |-> "User"],
            [login |-> "bot", contributions |-> 2, type |-> "Bot"]>>)}
EmptyDict == [k \in {} |-> 0]
LanguageBodies == {Body(EmptyDict), Body([Python |-> 700, C |-> 300])}
Servers ==
    [repository : RepositoryBodies \cup {RequestFailed},
     contributors : ContributorBodies \cup {RequestFailed},
     languages : LanguageBodies \cup {RequestFailed}]

\* sum(languages.values())
RECURSIVE SumValues(_)
SumValues(languages) ==
    IF DOMAIN languages = {} THEN 0
    ELSE LET k == CHOOSE x \in DOMAIN languages : TRUE
         IN  languages[k] + SumValues([x \in DOMAIN languages \ {k} |-> languages[x]])

\* client.py 69: fromisoformat(text.replace("Z", "+00:00")), an aware datetime
\* at offset zero.
ParseApiTime(text) == IsoDate(text.wall, TRUE, 0)

\* client.py 50-83.
get_repository(response, owner, repo) ==
    IF response.status = "RequestException" THEN [raised |-> "RequestException"]
    ELSE [raised |-> "none",
          value |-> [stars |-> response.data.stargazers_count,
                     forks |-> response.data.forks_count,
                     pushed_at |-> ParseApiTime(response.data.pushed_at)]]
\* get_contributors re-raising as get_repository does.
ContributorsFetchRaises(response, owner, repo) ==
    IF response.status = "RequestException" THEN [raised |-> "RequestException"]
    ELSE [raised |-> "none", value |-> response.data]
\* client.py 85-106.
get_contributors(response, owner, repo) ==
    IF response.status = "RequestException" THEN [raised |-> "none", value |-> <<>>]
    ELSE [raised |-> "none", value |-> response.data]
\* client.py 108-126.
get_language_stats(response, owner, repo) ==
    IF response.status = "RequestException"
    THEN [languages |-> EmptyDict, total_bytes |-> 0]
    ELSE [languages |-> response.data, total_bytes |-> SumValues(response.data)]

\* github/models.py 47-54.
GitHubMetrics(repository, contributors, language_stats, clone_url, ssh_url) ==
    [repository |-> repository, contributors |-> contributors,
     language_stats |-> language_stats, clone_url |-> clone_url, ssh_url |-> ssh_url]

\* client.py 128-144.
get_repository_metrics(github_url, server) ==
    LET parsed == parse_github_url(github_url) IN
    IF parsed.raised # "none" THEN [raised |-> parsed.raised]
    ELSE LET owner == parsed.value[1]
             repo == parsed.value[2]
             repository == get_repository(server.repository, owner, repo)
             contributors == get_contributors(server.contributors, owner, repo)
         IN  IF repository.raised # "none" THEN [raised |-> repository.raised]
             ELSE IF contributors.raised # "none" THEN [raised |-> contributors.raised]
             ELSE [raised |-> "none",
                   value |-> GitHubMetrics(
                       repository.value, contributors.value,
                       get_language_stats(server.languages, owner, repo),
                       HttpsForm(owner, repo) \o DotGit,
                       SshForm(owner, repo))]

\* The tiers with the limits counted in the higher tier.
GitHubActivityStrict(days_since_update) ==
    IF days_since_update < 7 THEN "very_active"
    ELSE IF days_since_update < 30 THEN "active"
    ELSE IF days_since_update < 90 THEN "moderate"
    ELSE "inactive"
\* github/models.py 77-84.
GitHubActivityOf(days_since_update) ==
    IF days_since_update <= 7 THEN "very_active"
    ELSE IF days_since_update <= 30 THEN "active"
    ELSE IF days_since_update <= 90 THEN "moderate"
    ELSE "inactive"
\* github/models.py 63-84.
activity_level(metrics, now) ==
    GitHubActivityOf(DaysBetween(now, UtcHours(metrics.repository.pushed_at)))

NoUrl == [chosen |-> FALSE]
NotParsed == [raised |-> "not called"]
NoServer == [asked |-> FALSE]
NoMetrics == [raised |-> "not called"]
NotRead == [read |-> FALSE]

GmInit ==
    /\ gmUrl = NoUrl
    /\ gmParsed = NotParsed
    /\ gmServer = NoServer
    /\ gmMetrics = NoMetrics
    /\ gmActivity = NotRead

GmParseGithubUrl ==
    /\ gmUrl = NoUrl
    /\ \E url \in GmUrls :
         /\ gmUrl' = [chosen |-> TRUE, text |-> url]
         /\ gmParsed' = parse_github_url(url)
    /\ UNCHANGED <<gmServer, gmMetrics, gmActivity>>
    /\ UNCHANGED gmOthers

GmGetRepositoryMetrics ==
    /\ gmUrl # NoUrl
    /\ gmMetrics = NoMetrics
    /\ \E server \in Servers :
         /\ gmServer' = [asked |-> TRUE, answers |-> server]
         /\ gmMetrics' = get_repository_metrics(gmUrl.text, server)
    /\ UNCHANGED <<gmUrl, gmParsed, gmActivity>>
    /\ UNCHANGED gmOthers

\* A GitHubMetrics built from values at hand, its pushed_at naive or carrying
\* an offset.
GmConstructMetrics ==
    /\ gmUrl = NoUrl
    /\ gmMetrics = NoMetrics
    /\ \E age \in PushAges :
       \E pushed_at \in {IsoDate(480000 - age, FALSE, 0), IsoDate(480000 - age + 5, TRUE, 5)} :
         gmMetrics' = [raised |-> "none",
                       value |-> GitHubMetrics([stars |-> 100, forks |-> 20, pushed_at |-> pushed_at],
                                               <<>>, [languages |-> EmptyDict, total_bytes |-> 0],
                                               HttpsGitForm(<<"o">>, <<"r">>), SshForm(<<"o">>, <<"r">>))]
    /\ UNCHANGED <<gmUrl, gmParsed, gmServer, gmActivity>>
    /\ UNCHANGED gmOthers

GmActivityLevel ==
    /\ gmMetrics.raised = "none"
    /\ gmActivity = NotRead
    /\ \E now \in ClockReadings :
         gmActivity' = [read |-> TRUE, now |-> now, level |-> activity_level(gmMetrics.value, now)]
    /\ UNCHANGED <<gmUrl, gmParsed, gmServer, gmMetrics>>
    /\ UNCHANGED gmOthers

GmNext ==
    \/ GmParseGithubUrl
    \/ GmGetRepositoryMetrics
    \/ GmConstructMetrics
    \/ GmActivityLevel

(***************************************************************************)
(* Local ingestion: ingestion/walker.py get_recent_commits,                *)
(* ingest_local_repository                                                 *)
(***************************************************************************)
\* The directory of the ingestion test: a README and a main.py.
LocalRoot == <<"/", "home", "proj">>
LocalListing == <<EntryOf(<<"README.md">>, TRUE, TRUE), EntryOf(<<"main.py">>, TRUE, TRUE)>>

NoGit == [dir |-> FALSE]
\* What repo_path names.  history is the checked-out branch, oldest commit
\* first; it is empty between `git init` and the first commit.
MissingPath == [exists |-> FALSE]
RegularFile == [exists |-> TRUE, is_dir |-> FALSE]
Directory(git) == [exists |-> TRUE, is_dir |-> TRUE, git |-> git]

\* A commit object: the message as written (a text, with or without white
\* space around it), the authoring time an aware datetime.
CommitObject(n, padded) ==
    [hexsha |-> n,
     message |-> IF padded THEN <<" ", "w", "i", "p", "\n">> ELSE <<"f", "i", "x">>,
     author |-> "ann",
     authored_datetime |-> [wall |-> 479000 + n, offset |-> 0]]

\* str() of an aware datetime: text that datetime.fromisoformat reads back.
StrOfDatetime(dt) == IsoDate(dt.wall, TRUE, dt.offset)

\* git.Repo(root): a directory without repository metadata is refused.
Repo(root) ==
    IF root.git.dir THEN [raised |-> "none", value |-> root.git]
    ELSE [raised |-> "InvalidGitRepositoryError"]
\* repo.iter_commits('HEAD', max_count=limit): the newest limit commits,
\* newest first; `git rev-list HEAD` fails when HEAD names no commit yet.
iter_commits(repo, limit) ==
    LET n == Len(repo.history) IN
    IF n = 0 THEN [raised |-> "GitCommandError"]
    ELSE [raised |-> "none",
          value |-> [i \in 1..(IF n < limit THEN n ELSE limit) |-> repo.history[n - i + 1]]]

\* walker.py 95-110.
get_recent_commits(root, limit) ==
    LET repo == Repo(root) IN
    IF repo.raised = "InvalidGitRepositoryError" THEN [raised |-> "none", value |-> <<>>]
    ELSE LET commits == iter_commits(repo.value, limit) IN
         IF commits.raised # "none" THEN [raised |-> commits.raised]
         ELSE [raised |-> "none",
               value |-> [i \in DOMAIN commits.value |->
                            LET c == commits.value[i]
                            IN  [hash |-> c.hexsha, message |-> str_strip(c.message), author |-> c.author,
                                 date |-> StrOfDatetime(c.authored_datetime)]]]

\* walker.py 160-180.
ingest_local_repository(root) ==
    IF ~root.exists THEN [raised |-> "ValueError"]
    ELSE IF ~root.is_dir THEN [raised |-> "ValueError"]
    ELSE LET files == collect_files(LocalRoot, LocalListing)
             commits == get_recent_commits(root, 10)
         IN  IF commits.raised # "none" THEN [raised |-> commits.raised]
             ELSE [raised |-> "none",
                   value |-> [root_path |-> LocalRoot, files |-> files,
                              recent_commits |-> commits.value,
                              is_git_repo |-> Len(commits.value) > 0,
                              github_url |-> None, is_github_clone |-> FALSE]]

NotIngested == [raised |-> "not called"]

IlInit ==
    /\ ilRoot = MissingPath
    /\ ilSnapshot = NotIngested

\* repo_path comes to name a regular file or a directory.
IlCreate ==
    /\ ilSnapshot = NotIngested
    /\ ilRoot = MissingPath
    /\ ilRoot' \in {RegularFile, Directory(NoGit)}
    /\ UNCHANGED ilSnapshot
    /\ UNCHANGED ilOthers

\* `git init` in the directory.
IlGitInit ==
    /\ ilSnapshot = NotIngested
    /\ ilRoot = Directory(NoGit)
    /\ ilRoot' = Directory([dir |-> TRUE, history |-> <<>>])
    /\ UNCHANGED ilSnapshot
    /\ UNCHANGED ilOthers

\* `git commit` in the directory.
IlCommit ==
    /\ ilSnapshot = NotIngested
    /\ ilRoot.exists /\ ilRoot.is_dir /\ ilRoot.git.dir
    /\ Len(ilRoot.git.history) < MaxHistory
    /\ \E padded \in BOOLEAN :
         ilRoot' = Directory([dir |-> TRUE,
                              history |-> Append(ilRoot.git.history,
                                                 CommitObject(Len(ilRoot.git.history) + 1, padded))])
    /\ UNCHANGED ilSnapshot
    /\ UNCHANGED ilOthers

IlIngestLocalRepository ==
    /\ ilSnapshot = NotIngested
    /\ ilSnapshot' = ingest_local_repository(ilRoot)
    /\ UNCHANGED ilRoot
    /\ UNCHANGED ilOthers

IlNext ==
    \/ IlCreate
    \/ IlGitInit
    \/ IlCommit
    \/ IlIngestLocalRepository

(***************************************************************************)
(* Content selection: intelligence/selector.py                             *)
(***************************************************************************)
\* File contents are sequences of characters.
Contents == {<<>>, <<"a">>, <<"b", "c">>, <<"d", "e", "f">>}
\* The max_length argument (10000 when the caller passes none).
Budgets == 0..5

\* "\n\n".join(parts)
RECURSIVE JoinParts(_)
JoinParts(parts) ==
    IF parts = <<>> THEN <<>>
    ELSE IF Len(parts) = 1 THEN parts[1]
    ELSE parts[1] \o <<"\n", "\n">> \o JoinParts(Tail(parts))

\* selector.py 16-25: the loop from file i on, [parts, total_length] so far.
RECURSIVE SelectFrom(_, _, _, _, _)
SelectFrom(files, i, max_length, content_parts, total_length) ==
    IF i > Len(files) THEN content_parts
    ELSE IF total_length + Len(files[i]) > max_length
      THEN Append(content_parts, SubSeq(files[i], 1, max_length - total_length))
    ELSE SelectFrom(files, i + 1, max_length, Append(content_parts, files[i]),
                    total_length + Len(files[i]))

\* selector.py 6-27: the parts and the string returned.
select_content(files, max_length) ==
    LET content_parts == SelectFrom(files, 1, max_length, <<>>, 0)
    IN  [parts |-> content_parts, text |-> JoinParts(content_parts)]

NotSelected == [called |-> FALSE]

ScInit ==
    /\ scFiles = <<>>
    /\ scOut = NotSelected

ScAddFile ==
    /\ scOut = NotSelected
    /\ Len(scFiles) < MaxSelectFiles
    /\ \E content \in Contents : scFiles' = Append(scFiles, content)
    /\ UNCHANGED scOut
    /\ UNCHANGED scOthers

ScSelectContent ==
    /\ scOut = NotSelected
    /\ \E max_length \in Budgets :
         scOut' = [called |-> TRUE, max_length |-> max_length,
                   selected |-> select_content(scFiles, max_length)]
    /\ UNCHANGED scFiles
    /\ UNCHANGED scOthers

ScNext ==
    \/ ScAddFile
    \/ ScSelectContent

(***************************************************************************)
(* Project name: mcp/generator.py infer_project_name                       *)
(***************************************************************************)
\* Texts are sequences of characters.
Readme == <<"r", "e", "a", "d", "m", "e">>
Hash == <<"#", " ">>
NL == <<"\n">>

\* text.startswith(prefix)
str_startswith(text, prefix) ==
    Len(text) >= Len(prefix) /\ SubSeq(text, 1, Len(prefix)) = prefix

\* text.split('\n'): the lines, one more than there are newlines.
RECURSIVE str_split(_)
str_split(text) ==
    LET breaks == {i \in 1..Len(text) : text[i] = "\n"}
    IN  IF breaks = {} THEN <<text>>
        ELSE LET i == CHOOSE b \in breaks : \A c \in breaks : b <= c
             IN  <<SubSeq(text, 1, i - 1)>> \o str_split(SubSeq(text, i + 1, Len(text)))

\* lines[:n]
FirstLines(lines, n) == SubSeq(lines, 1, IF Len(lines) < n THEN Len(lines) ELSE n)

\* generator.py 22-25: the heading found in one file, NoHeading when the loop
\* over lines[:10] ends without a return.
NoHeading == <<"no heading">>
HeadingIn(content) ==
    LET lines == FirstLines(str_split(content), 10)
        found == {i \in 1..Len(lines) : str_startswith(str_strip(lines[i]), Hash)}
    IN  IF found = {} THEN NoHeading
        ELSE LET i == CHOOSE f \in found : \A g \in found : f <= g
             IN  str_strip(SubSeq(lines[i], 3, Len(lines[i])))

\* generator.py 20-26, from file i on.
RECURSIVE InferFrom(_, _, _)
InferFrom(files, i, root_name) ==
    IF i > Len(files) THEN root_name
    ELSE IF str_in(Readme, str_lower(files[i].name)) /\ HeadingIn(files[i].content) # NoHeading
      THEN HeadingIn(files[i].content)
    ELSE InferFrom(files, i + 1, root_name)

\* generator.py 18-26
infer_project_name(files, root_name) == InferFrom(files, 1, root_name)

\* Sample file names and contents.
PnNames ==
    { <<"R", "E", "A", "D", "M", "E", ".", "m", "d">>,
      <<"R", "e", "a", "d", "m", "e">>,
      <<"m", "a", "i", "n", ".", "p", "y">>,
      <<"r", "e", "a", "d", "m", "e", "s", ".", "p", "y">> }
RECURSIVE Prose(_)
Prose(n) == IF n = 0 THEN <<>> ELSE <<"x">> \o NL \o Prose(n - 1)
PnContents ==
    { Hash \o <<"A">>,                                   \* # A
      Prose(1) \o NL \o Hash \o <<"A", " ">> \o NL \o Hash \o <<"B">>,
      Prose(9) \o Hash \o <<"A">>,                       \* the heading is line 10
      Prose(10) \o Hash \o <<"A">>,                      \* the heading is line 11
      Prose(1) \o <<"#", "#", " ", "C">> \o NL \o <<"#">>, \* no level-1 heading
      <<" ", " ">> \o Hash \o <<"B">>,                   \* an indented heading
      <<>> }
PnFileSet == [name : PnNames, content : PnContents]

\* The root directory: the resolved path of a local run (walker.py 163), or
\* the directory tempfile.mkdtemp made for a clone (cloner.py 38), whose name
\* is "mcp-<repo>-" and characters mkdtemp picks.
RepoName == <<"w", "i", "d", "g", "e", "t">>
MkdtempPicks == {<<"k", "3", "x">>, <<"q", "7", "_">>}
LocalRootName == RepoName
CloneRootName(picked) == <<"m", "c", "p", "-">> \o RepoName \o <<"-">> \o picked

PnInit ==
    /\ pnFiles = <<>>
    /\ pnRuns = <<>>

PnAddFile ==
    /\ pnRuns = <<>>
    /\ Len(pnFiles) < MaxNameFiles
    /\ \E file \in PnFileSet : pnFiles' = Append(pnFiles, file)
    /\ UNCHANGED pnRuns
    /\ UNCHANGED pnOthers

\* init on the directory itself: ingest_local_repository, then generate_mcp.
PnRunLocal ==
    /\ Len(pnRuns) < MaxRuns
    /\ pnRuns' = Append(pnRuns, [source |-> "local", root_name |-> LocalRootName,
                                 project_name |-> infer_project_name(pnFiles, LocalRootName)])
    /\ UNCHANGED pnFiles
    /\ UNCHANGED pnOthers

\* init on the repository's GitHub URL: clone_to_temp, ingest_local_repository
\* of the clone, then generate_mcp.
PnRunGithub ==
    /\ Len(pnRuns) < MaxRuns
    /\ \E picked \in MkdtempPicks :
         pnRuns' = Append(pnRuns, [source |-> "github", root_name |-> CloneRootName(picked),
                                   project_name |-> infer_project_name(pnFiles, CloneRootName(picked))])
    /\ UNCHANGED pnFiles
    /\ UNCHANGED pnOthers

PnNext ==
    \/ PnAddFile
    \/ PnRunLocal
    \/ PnRunGithub

(***************************************************************************)
(* Rule-based engine: intelligence/local_llm.py SimpleLLMReasoningEngine   *)
(***************************************************************************)
\* Phrases a content is made of; the content is the phrases joined by spaces.
Phrases ==
    { <<"D", "o", "c", "k", "e", "r", " ", "A", "P", "I", " ", "t", "e", "s", "t", "s">>,
      <<"R", "e", "a", "c", "t", " ", "T", "y", "p", "e", "S", "c", "r", "i", "p", "t">>,
      <<"l", "o", "g", "i", "n", " ", "d", "b">>,
      <<"a", "u", "t", "h", " ", "d", "a", "t", "a", "b", "a", "s", "e">>,
      <<"m", "o", "n", "g", "o", "d", "b">>,
      <<"e", "n", "d", "p", "o", "i", "n", "t">>,
      <<"s", "p", "e", "c">>,
      <<"p", "l", "a", "i", "n", " ", "w", "o", "r", "d", "s">>,
      <<"T", "O", "D", "O">>,
      <<"v", "1">> }
RECURSIVE JoinWords(_)
JoinWords(words) ==
    IF words = <<>> THEN <<>>
    ELSE IF Len(words) = 1 THEN words[1]
    ELSE words[1] \o <<" ">> \o JoinWords(Tail(words))

\* local_llm.py 220-239: the keywords of each test, in the order of the tests,
\* and the phrase each test appends.
FeatureRules ==
    << [keywords |-> {<<"t", "e", "s", "t">>, <<"s", "p", "e", "c">>},
        feature |-> "Comprehensive testing suite"],
       [keywords |-> {<<"d", "o", "c", "k", "e", "r">>},
        feature |-> "Containerized deployment"],
       [keywords |-> {<<"a", "p", "i">>, <<"e", "n", "d", "p", "o", "i", "n", "t">>},
        feature |-> "RESTful API design"],
       [keywords |-> {<<"r", "e", "a", "c", "t">>, <<"v", "u", "e">>, <<"a", "n", "g", "u", "l", "a", "r">>},
        feature |-> "Modern frontend framework"],
       [keywords |-> {<<"t", "y", "p", "e", "s", "c", "r", "i", "p", "t">>},
        feature |-> "Type-safe development"],
       [keywords |-> {<<"a", "u", "t", "h">>, <<"l", "o", "g", "i", "n">>},
        feature |-> "Authentication system"],
       [keywords |-> {<<"d", "a", "t", "a", "b", "a", "s", "e">>, <<"d", "b">>},
        feature |-> "Database integration"] >>
\* local_llm.py 242-248
DefaultFeatures ==
    << "Clean, maintainable code architecture", "Comprehensive documentation",
       "User-friendly interface", "Reliable performance" >>

AnyIn(keywords, text) == \E k \in keywords : str_in(k, text)

\* local_llm.py 220-239: the appends, from rule i on.
RECURSIVE FeaturesFrom(_, _, _)
FeaturesFrom(rules, i, content_lower) ==
    IF i > Len(rules) THEN <<>>
    ELSE (IF AnyIn(rules[i].keywords, content_lower) THEN <<rules[i].feature>> ELSE <<>>)
         \o FeaturesFrom(rules, i + 1, content_lower)

\* local_llm.py 251-256
CurrentFocusOf(content_lower) ==
    IF AnyIn({<<"t", "o", "d", "o">>, <<"f", "i", "x", "m", "e">>}, content_lower)
      THEN "Addressing technical debt and implementing planned improvements."
    ELSE IF AnyIn({<<"b", "e", "t", "a">>, <<"a", "l", "p", "h", "a">>}, content_lower)
      THEN "Stabilizing features and preparing for production release."
    ELSE IF AnyIn({<<"v", "1">>, <<"r", "e", "l", "e", "a", "s", "e">>}, content_lower)
      THEN "Finalizing features and ensuring production readiness."
    ELSE "Improving core functionality and user experience."

\* features[:5]
FirstFive(features) == SubSeq(features, 1, IF Len(features) < 5 THEN Len(features) ELSE 5)

\* analyze_content without the cut to five features.
AnalyzeContentUncut(content) ==
    LET content_lower == str_lower(content)
        hits == FeaturesFrom(FeatureRules, 1, content_lower)
    IN  [features |-> IF hits = <<>> THEN DefaultFeatures ELSE hits,
         current_focus |-> CurrentFocusOf(content_lower)]

\* local_llm.py 212-261
analyze_content(content) ==
    LET content_lower == str_lower(content)
        hits == FeaturesFrom(FeatureRules, 1, content_lower)
        features == IF hits = <<>> THEN DefaultFeatures ELSE hits
    IN  [features |-> FirstFive(features), current_focus |-> CurrentFocusOf(content_lower)]

\* local_llm.py 168-210: the bundle of pre-written texts chosen by the tag.
analyze_project_type(project_type) ==
    IF project_type \in {"web_app", "cli", "api", "library"} THEN project_type ELSE "default"

\* local_llm.py 151-166
Simple_reason(project_type, content) ==
    [bundle |-> analyze_project_type(project_type),
     key_features |-> analyze_content(content).features,
     current_focus |-> analyze_content(content).current_focus]

NotReasoned == [bundle |-> "none"]

RbInit ==
    /\ rbWords = <<>>
    /\ rbInsights = NotReasoned

RbAddPhrase ==
    /\ rbInsights = NotReasoned
    /\ Len(rbWords) < MaxPhrases
    /\ \E p \in Phrases : rbWords' = Append(rbWords, p)
    /\ UNCHANGED rbInsights
    /\ UNCHANGED rbOthers

RbReason ==
    /\ rbInsights = NotReasoned
    /\ \E project_type \in ProjectType :
         rbInsights' = Simple_reason(project_type, JoinWords(rbWords))
    /\ UNCHANGED rbWords
    /\ UNCHANGED rbOthers

RbNext ==
    \/ RbAddPhrase
    \/ RbReason

Init == GhInit /\ EnInit /\ FaInit /\ CliInit /\ WkInit /\ McInit /\ SgInit /\ GmInit /\ IlInit /\ ScInit /\ PnInit /\ RbInit

SpecClone == Init /\ [][GhNext]_vars

SpecEngine == Init /\ [][EnNext]_vars

SpecFactory == Init /\ [][FaNext]_vars

SpecCli == Init /\ [][CliNext]_vars

SpecWalker == Init /\ [][WkNext]_vars

SpecMcp == Init /\ [][McNext]_vars

SpecValidate == Init /\ [][VaNext]_vars

SpecSignals == Init /\ [][SgNext]_vars

SpecGitHub == Init /\ [][GmNext]_vars

SpecIngest == Init /\ [][IlNext]_vars

SpecSelect == Init /\ [][ScNext]_vars

SpecName == Init /\ [][PnNext]_vars

SpecSimple == Init /\ [][RbNext]_vars

(***************************************************************************)
(* Claims                                                                  *)
(***************************************************************************)
\* C1: when a call of ingest_github_repository has ended, the scratch
\* directory it created no longer exists, however the call ended.
C1_TempCloneRemovedOnEveryExit ==
    (ghPc = "done" /\ target_dir # NoDir) => target_dir \notin tempDirs

Wrappers == {"openai", "anthropic", "local"}

\* The cases the claims call a failure of the backend: the call raised (an
\* error or a timeout), the local pipeline is missing or returned no text, a
\* hosted response holds no JSON object at all, or anything was raised while
\* the response was taken apart.
BackendFailed ==
    \/ enBackend.kind \in {"raises", "malformed", "no_pipeline"}
    \/ enExc # "none"
    \/ /\ enEngine \in {"openai", "anthropic"}
       /\ enBackend.kind = "responds"
       /\ \A i \in 1..Len(enBackend.content) : enBackend.content[i] # "{"

\* C2: reason() of each external-backend wrapper never raises, and on a
\* backend failure, timeout or unparseable response it returns the fallback
\* bundle, which is one and the same bundle for the three wrappers.
C2_WrappersNeverRaise ==
    enEngine \in Wrappers =>
        /\ enOutcome = "returned"
        /\ enInsights # NoInsights
        /\ BackendFailed =>
              /\ enInsights = OpenAI_fallback_insights
              /\ enInsights = Anthropic_fallback_insights
              /\ enInsights = Local_fallback_insights

\* Witness of C2: a hosted wrapper got JSON that is not an object, which its
\* own _parse_response does not handle, and returned the fallback bundle.
C2_Witness ==
    /\ enEngine = "anthropic"
    /\ enBackend.kind = "responds"
    /\ enExc = "AttributeError"
    /\ enOutcome = "returned"
    /\ enInsights = Anthropic_fallback_insights

\* C3: the bundle a wrapper returns on failure equals the bundle of the
\* fixed-template (mock) engine, field for field.
C3_FallbackEqualsMock ==
    (enEngine \in Wrappers /\ BackendFailed /\ enOutcome = "returned") =>
        /\ enInsights.problem = MockInsights.problem
        /\ enInsights.solution = MockInsights.solution
        /\ enInsights.value_proposition = MockInsights.value_proposition
        /\ enInsights.target_users = MockInsights.target_users
        /\ enInsights.key_features = MockInsights.key_features
        /\ enInsights.current_focus = MockInsights.current_focus
        /\ enInsights.future_plans = MockInsights.future_plans

\* C4: create_reasoning_engine with a provider name that is none of auto,
\* openai, anthropic, local, simple, mock returns the rule-based engine and
\* does not raise.
C4_UnknownProviderGivesSimple ==
    (faResult # NoResult /\ faArgs.provider \notin KnownProviders) =>
        /\ faResult.outcome = "returned"
        /\ faResult.engine = "SimpleLLMReasoningEngine"

\* Witness of C4: a call with an unknown provider name has returned.
C4_Witness ==
    /\ faResult # NoResult
    /\ faArgs.provider = "gpt5"
    /\ faArgs.interactive
    /\ faResult.engine = "SimpleLLMReasoningEngine"

\* C5: with provider auto, non-interactive (and no key argument), the engine
\* is the OpenAI wrapper if an OpenAI credential is present and its package
\* importable, otherwise the Anthropic wrapper if an Anthropic credential is
\* present and its package importable, otherwise the rule-based engine.
C5_AutoPreferenceOrder ==
    (/\ faResult # NoResult
     /\ faArgs.provider = "auto"
     /\ ~faArgs.interactive
     /\ faArgs.api_key = None) =>
        faResult.engine =
            IF Truthy(faArgs.environ.OPENAI_API_KEY) /\ "openai" \in faArgs.installed
              THEN "OpenAIReasoningEngine"
            ELSE IF Truthy(faArgs.environ.ANTHROPIC_API_KEY)
                      /\ "anthropic" \in faArgs.installed
              THEN "AnthropicReasoningEngine"
            ELSE "SimpleLLMReasoningEngine"

\* A run whose input is valid and whose collaborators all succeed.  Only init
\* and github pass provider options to create_reasoning_engine; in the other
\* commands it cannot raise, so its outcome does not count there.
CliValidRun ==
    /\ cliOut # NoOut
    /\ IF cliArgs.command \in {"init", "github"} THEN cliArgs.co = AllSucceed
       ELSE [cliArgs.co EXCEPT !.engine = "ok"] = AllSucceed
    /\ cliArgs.command \in {"init", "update", "analyze"}
          => cliArgs.repo \in {"dir", "github_dir", "github_url"}
    /\ cliArgs.command = "github" => cliArgs.repo = "github_url"
    /\ cliArgs.command = "rate-limit" => (Truthy(cliArgs.github_token) \/ Truthy(GITHUB_TOKEN))

\* C6: every subcommand, given valid input and succeeding collaborators,
\* runs to completion, ends by printing its result or confirmation, and
\* exits with code 0 (analyze writing no file).
C6_ValidRunExitsZero ==
    CliValidRun =>
        /\ cliOut.exit = 0
        /\ cliOut.uncaught = "none"
        /\ \A i \in 1..Len(cliOut.printed) : cliOut.printed[i] \notin ErrorLines
        /\ cliArgs.command = "analyze" => ~cliOut.written

\* A run that fails with one of the handled errors: a repository path that
\* does not exist or is no directory, a non-GitHub URL given to github, no
\* token for rate-limit, a missing or invalid document given to validate.
CliHandledError ==
    /\ cliOut # NoOut
    /\ \/ cliArgs.command \in {"init", "update", "analyze", "github"}
          /\ cliArgs.repo \in {"missing", "file"}
       \/ cliArgs.command = "github" /\ cliArgs.repo = "gitlab_url"
       \/ cliArgs.command = "rate-limit"
          /\ ~Truthy(cliArgs.github_token) /\ ~Truthy(GITHUB_TOKEN)
       \/ cliArgs.command = "validate" /\ cliArgs.co.file \in {"missing", "invalid"}

\* C7: a subcommand that fails with a handled error prints exactly one error
\* line and exits with status 1.
C7_HandledErrorOneLine ==
    CliHandledError =>
        /\ cliOut.exit = 1
        /\ Cardinality({i \in 1..Len(cliOut.printed) : cliOut.printed[i] \in ErrorLines}) = 1

\* The precedence classes of the walker, by the name tables of the source:
\* 1 README-like, 2 other documentation or config manifest, 3 source code,
\* 4 everything else.
IsReadme(path) == lower(NameOf(path)) \in HIGH_PRIORITY_FILES
IsDocOrManifest(path) ==
    /\ ~IsReadme(path)
    /\ \/ lower(NameOf(path)) \in CONFIG_FILES
       \/ lower(suffix(NameOf(path))) \in DocSuffixes
IsSource(path) ==
    /\ ~IsReadme(path) /\ ~IsDocOrManifest(path)
    /\ lower(suffix(NameOf(path))) \in SourceSuffixes
PrecedenceClass(path) ==
    IF IsReadme(path) THEN 1
    ELSE IF IsDocOrManifest(path) THEN 2
    ELSE IF IsSource(path) THEN 3
    ELSE 4

\* The root holds only a README and one source file.
OnlyReadmeAndSource ==
    /\ wkFiles.collected
    /\ Len(wkListing) = 2
    /\ \E i, j \in 1..2 :
         /\ i # j
         /\ wkListing[i].rel = <<"README.md">>
         /\ wkListing[j].rel = <<"main.py">>

\* C8: for every root directory, wherever it is located, that contains only
\* a README and one source file, collect_files returns exactly those two
\* files, the README first.
C8_ReadmeAndSourceReturned ==
    OnlyReadmeAndSource =>
        /\ Len(wkFiles.files) = 2
        /\ wkFiles.files[1].path = wkRoot \o <<"README.md">>
        /\ wkFiles.files[2].path = wkRoot \o <<"main.py">>

\* Position of a returned file in the enumeration.
EnumeratedAt(f) == CHOOSE i \in 1..Len(wkListing) : wkRoot \o wkListing[i].rel = f.path

\* C9: in the list collect_files returns, priorities are non-increasing, a
\* file of an earlier precedence class never follows one of a later class,
\* and files of equal priority keep their enumeration order.
C9_OrderedByPrecedenceAndStable ==
    wkFiles.collected =>
        \A i, j \in 1..Len(wkFiles.files) :
            i < j =>
                LET a == wkFiles.files[i]
                    b == wkFiles.files[j]
                IN  /\ a.priority >= b.priority
                    /\ PrecedenceClass(a.path) <= PrecedenceClass(b.path)
                    /\ a.priority = b.priority => EnumeratedAt(a) < EnumeratedAt(b)

\* Three files were returned: two of equal priority enumerated before a
\* README that outranks them.
C9_Witness ==
    /\ wkFiles.collected
    /\ Len(wkFiles.files) = 3
    /\ wkFiles.files[2].priority = wkFiles.files[3].priority
    /\ PrecedenceClass(wkFiles.files[1].path) = 1
    /\ EnumeratedAt(wkFiles.files[1]) = 3

\* C10: a document produced by generate_mcp, saved with save_mcp and
\* reloaded with load_mcp, comes back equal to the original in all fourteen
\* fields (project_type, status, the null risks_or_gaps and the metadata
\* version and generated_at included).
C10_SaveLoadRoundTrip ==
    mcLoaded # NotLoaded =>
        /\ mcLoaded.outcome = "returned"
        /\ mcLoaded.mcp = mcDoc

\* A document whose texts read like YAML scalars of other types, with a
\* fractional timestamp, has been saved and reloaded.
C10_Witness ==
    /\ mcLoaded # NotLoaded
    /\ mcDoc.project_name = PyStr("true")
    /\ mcDoc.problem = PyStr("true")
    /\ mcDoc.risks_or_gaps = PyNone
    /\ mcDoc.metadata.generated_at = PyDatetime("123456")
    /\ mcFile.metadata.version.style = "quoted"

\* The file lacks a required field, or holds a project_type or status
\* outside its enumeration.
MissingRequiredField(file) ==
    \/ \E k \in RequiredFields : k \notin DOMAIN file
    \/ "metadata" \in DOMAIN file /\ "version" \notin DOMAIN file.metadata
UnrecognizedEnum(file) ==
    \/ "project_type" \in DOMAIN file /\ file.project_type.text \notin ProjectType
    \/ "status" \in DOMAIN file /\ file.status.text \notin ProjectStatus

\* C11: loading a document that lacks a required field, or whose
\* project_type or status is outside its enumeration, fails with a
\* validation error, and validate exits 1 without reporting it valid.
C11_InvalidDocumentRejected ==
    (mcValidated # NoOut /\ (MissingRequiredField(mcFile) \/ UnrecognizedEnum(mcFile))) =>
        /\ mcLoaded.outcome = "ValidationError"
        /\ mcValidated.exit = 1
        /\ \A i \in 1..Len(mcValidated.printed) : mcValidated.printed[i] # "MCP file is valid"

\* validate has run on a file whose status was replaced by a non-member.
C11_Witness ==
    /\ mcValidated # NoOut
    /\ mcEdit = [kind |-> "replace", key |-> "status", text |-> "desktop"]
    /\ UnrecognizedEnum(mcFile)
    /\ mcValidated.printed = <<"Validation error: <exception>">>

\* The sequences that hold the same files as the snapshot in another order
\* (the snapshot's files are distinct).
Reorderings(files) ==
    {q \in [1..Len(files) -> Range(files)] : Range(q) = Range(files)}
IsSortedNoDuplicates(names) ==
    \A i, j \in 1..Len(names) :
        i < j => \E a, b \in 1..Len(CodePointOrder) :
                    a < b /\ CodePointOrder[a] = names[i] /\ CodePointOrder[b] = names[j]

\* C12: extract_languages and extract_frameworks return the same sorted,
\* duplicate-free list for every order of the same files, and a second
\* extraction on the same snapshot returns what the first did.
C12_ExtractionOrderIndependent ==
    sgFirst.extracted =>
        /\ IsSortedNoDuplicates(sgFirst.signals.languages)
        /\ IsSortedNoDuplicates(sgFirst.signals.frameworks)
        /\ \A q \in Reorderings(sgFiles) :
              /\ extract_languages(q) = sgFirst.signals.languages
              /\ extract_frameworks(q) = sgFirst.signals.frameworks
        /\ sgSecond.extracted =>
              /\ sgSecond.signals.languages = sgFirst.signals.languages
              /\ sgSecond.signals.frameworks = sgFirst.signals.frameworks

\* Two extractions ran on three files enumerated against the sorted order,
\* two of them of the same language, with two frameworks found.
C12_Witness ==
    /\ sgSecond.extracted
    /\ Len(sgFiles) = 3
    /\ sgFirst.signals.languages = <<"C", "Python">>
    /\ LanguageHits(sgFiles) = <<"Python", "C", "C">>
    /\ sgFirst.signals.frameworks = <<"Flask", "Typer">>

MaturityRank(tier) == CASE tier = "prototype" -> 1 [] tier = "mvp" -> 2 [] tier = "production" -> 3

\* C13: maturity is production exactly when tests, CI, docs and a version
\* marker are all there, mvp when tests and docs are there but not all four,
\* prototype otherwise; turning any of the four from false to true never
\* lowers the tier.
C13_MaturityMonotonic ==
    sgFirst.extracted =>
        LET t == has_tests(sgFiles)
            c == has_ci(sgFiles)
            d == has_docs(sgFiles)
            v == has_version(sgFiles)
            tier == sgFirst.signals.maturity
        IN  /\ tier = "production" <=> (t /\ c /\ d /\ v)
            /\ tier = "mvp" <=> (t /\ d /\ ~(c /\ v))
            /\ tier = "prototype" <=> ~(t /\ d)
            /\ \A t2, c2, d2, v2 \in BOOLEAN :
                  ((t => t2) /\ (c => c2) /\ (d => d2) /\ (v => v2)) =>
                      MaturityRank(MaturityOf(t2, c2, d2, v2)) >= MaturityRank(tier)

\* A snapshot with tests and docs but neither CI nor a version marker was
\* classified: adding CI alone must not lower it.
C13_Witness ==
    /\ sgFirst.extracted
    /\ has_tests(sgFiles) /\ has_docs(sgFiles) /\ ~has_ci(sgFiles) /\ ~has_version(sgFiles)
    /\ sgFirst.signals.maturity = "mvp"

\* C14: with d the whole number of days from the newest commit to now,
\* d < 30 gives high, 30 <= d < 90 medium, d >= 90 low; no commits gives low;
\* a date that does not parse gives unknown.
C14_ActivityByDays ==
    sgFirst.extracted =>
        LET level == sgFirst.signals.activity_level
        IN  IF sgCommits = <<>> THEN level = "low"
            ELSE IF ~sgCommits[1].date.iso THEN level = "unknown"
            ELSE LET date == sgCommits[1].date
                     d == DaysBetween(sgFirst.now, IF date.aware THEN date.wall - date.offset
                                                    ELSE date.wall)
                 IN  /\ d < 30 => level = "high"
                     /\ (30 <= d /\ d < 90) => level = "medium"
                     /\ d >= 90 => level = "low"

\* The newest commit is exactly 30 days old, written with a UTC offset.
C14_Witness ==
    /\ sgFirst.extracted
    /\ sgCommits # <<>>
    /\ sgCommits[1].date = IsoDate(480000 - 720 + 5, TRUE, 5)
    /\ sgFirst.now = 480000
    /\ sgFirst.signals.activity_level = "medium"

\* C15: with d the whole number of days since the last push, the activity
\* tier is very_active for d <= 7, active for 7 < d <= 30, moderate for
\* 30 < d <= 90 and inactive for d > 90.
C15_GitHubActivityByDays ==
    gmActivity.read =>
        LET pushed_at == gmMetrics.value.repository.pushed_at
            d == DaysBetween(gmActivity.now, IF pushed_at.aware THEN pushed_at.wall - pushed_at.offset
                                              ELSE pushed_at.wall)
        IN  /\ d <= 7 => gmActivity.level = "very_active"
            /\ (7 < d /\ d <= 30) => gmActivity.level = "active"
            /\ (30 < d /\ d <= 90) => gmActivity.level = "moderate"
            /\ d > 90 => gmActivity.level = "inactive"

\* The last push, fetched from the API, is 7 days and 23 hours old.
C15_Witness ==
    /\ gmActivity.read
    /\ gmServer.asked
    /\ gmActivity.now = 480000
    /\ gmMetrics.value.repository.pushed_at = IsoDate(480000 - 191, TRUE, 0)
    /\ gmActivity.level = "very_active"

\* C16: in get_repository_metrics on a URL that parses, when the repository
\* fetch fails the failure propagates and no metrics are returned; when it
\* succeeds metrics are returned, with an empty contributor list if the
\* contributors fetch failed and an empty histogram with total 0 if the
\* languages fetch failed.
C16_SubFetchFailuresDegrade ==
    (gmServer.asked /\ gmParsed.raised = "none") =>
        IF gmServer.answers.repository = RequestFailed
        THEN gmMetrics = [raised |-> "RequestException"]
        ELSE /\ gmMetrics.raised = "none"
             /\ gmServer.answers.contributors = RequestFailed =>
                    gmMetrics.value.contributors = <<>>
             /\ gmServer.answers.languages = RequestFailed =>
                    /\ DOMAIN gmMetrics.value.language_stats.languages = {}
                    /\ gmMetrics.value.language_stats.total_bytes = 0

\* The repository fetch succeeded and both other fetches failed.
C16_Witness ==
    /\ gmServer.asked
    /\ gmParsed.raised = "none"
    /\ gmServer.answers.repository # RequestFailed
    /\ gmServer.answers.contributors = RequestFailed
    /\ gmServer.answers.languages = RequestFailed
    /\ gmMetrics.raised = "none"

\* C18: parse_github_url returns (o, r) for https://github.com/o/r,
\* https://github.com/o/r.git and git@github.com:o/r.git, and raises
\* ValueError for a URL that neither pattern matches.
C18_ParseGithubUrlForms ==
    gmUrl.chosen =>
        /\ \A o \in OwnerNames, r \in RepoNames :
              gmUrl.text \in {HttpsForm(o, r), HttpsGitForm(o, r), SshForm(o, r)} =>
                  gmParsed = [raised |-> "none", value |-> <<o, r>>]
        /\ (~SearchFirstPattern(gmUrl.text).matched /\ ~SearchSecondPattern(gmUrl.text).matched) =>
              gmParsed = [raised |-> "ValueError"]
        /\ (\A i \in 1..Len(gmUrl.text) : ~HasAt(gmUrl.text, i, GithubCom)) =>
              gmParsed = [raised |-> "ValueError"]

\* The SSH form of a repository whose name has a dot in it was parsed.
C18_Witness ==
    /\ gmUrl.chosen
    /\ gmUrl.text = SshForm(<<"m", "c", "p", "-", "o", "r", "g">>, <<"t", "o", "o", "l", ".", "p", "y">>)
    /\ gmParsed.raised = "none"
    /\ gmParsed.value[2] = <<"t", "o", "o", "l", ".", "p", "y">>

\* The commits of a snapshot are the newest ones of the branch, newest first.
NewestFirst(commits, history) ==
    \A i \in 1..Len(commits) : commits[i].hash = history[Len(history) - i + 1].hexsha

\* C17: ingesting a directory does not fail because of its commit history:
\* a checkout yields at most 10 commits, newest first; a directory that is
\* not under version control, or whose history cannot be read (a repository
\* without commits), yields no commits and is_git_repo false.
C17_HistoryNeverFailsIngestion ==
    (ilSnapshot # NotIngested /\ ilRoot.exists /\ ilRoot.is_dir) =>
        /\ ilSnapshot.raised = "none"
        /\ Len(ilSnapshot.value.recent_commits) <= 10
        /\ IF ilRoot.git.dir /\ ilRoot.git.history # <<>>
           THEN /\ NewestFirst(ilSnapshot.value.recent_commits, ilRoot.git.history)
                /\ ilSnapshot.value.recent_commits # <<>>
           ELSE /\ ilSnapshot.value.recent_commits = <<>>
                /\ ~ilSnapshot.value.is_git_repo

\* C19: the Insights that reason() of an engine returns, whatever the
\* backend answered, have at most 5 key features.
C19_AtMostFiveKeyFeatures ==
    enOutcome = "returned" => Len(enInsights.key_features) <= 5

TextsOf(values) == [i \in DOMAIN values |-> values[i].v]
HasNoDuplicates(texts) == \A i, j \in 1..Len(texts) : texts[i] = texts[j] => i = j

\* C20: a document that generate_mcp produced or load_mcp accepted has its
\* project_type and status in the enumerations and a tech_stack without
\* duplicates; the tech_stack of extracted signals, which generate_mcp copies,
\* is the sorted union of the languages and the frameworks.
C20_DocumentInvariants ==
    /\ mcDoc # NoDoc =>
          /\ mcDoc.project_type.v \in ProjectType
          /\ mcDoc.status.v \in ProjectStatus
          /\ IsSortedNoDuplicates(TextsOf(mcDoc.tech_stack))
    /\ mcLoaded.outcome = "returned" =>
          /\ mcLoaded.mcp.project_type.v \in ProjectType
          /\ mcLoaded.mcp.status.v \in ProjectStatus
          /\ HasNoDuplicates(TextsOf(mcLoaded.mcp.tech_stack))
    /\ sgFirst.extracted =>
          sgFirst.signals.tech_stack =
              sorted(Range(sgFirst.signals.languages) \cup Range(sgFirst.signals.frameworks))

\* The heuristics in the order of evaluation, and what each looks for in a
\* file's lower-cased path or name.
Heuristics == <<"cli", "api", "web_app", "ml", "automation", "library">>
MarkerIn(tag, path) ==
    CASE tag = "cli" -> PathContains(path, "cli") \/ NameContains(path, "main.py")
                        \/ NameContains(path, "main.js")
      [] tag = "api" -> PathContains(path, "api") \/ NameContains(path, "app.py")
                        \/ NameContains(path, "server.js")
      [] tag = "web_app" -> PathContains(path, "web") \/ NameContains(path, "index.html")
      [] tag = "ml" -> PathContains(path, "ml") \/ PathContains(path, "model")
      [] tag = "automation" -> PathContains(path, "script") \/ PathContains(path, "automation")
      [] tag = "library" -> PathContains(path, "lib") \/ PathContains(path, "library")
MatchingHeuristics(files) ==
    {k \in 1..Len(Heuristics) : \E i \in 1..Len(files) : MarkerIn(Heuristics[k], files[i].path)}

\* C21: infer_project_type returns the tag of the first heuristic, in the
\* order CLI, API, web app, ML, automation, library, that matches any file,
\* and other exactly when none matches.
C21_FirstMatchingHeuristicWins ==
    sgFirst.extracted =>
        LET hits == MatchingHeuristics(sgFiles)
            tag == sgFirst.signals.project_type
        IN  /\ tag = "other" <=> hits = {}
            /\ hits # {} =>
                  /\ tag \in {Heuristics[k] : k \in hits}
                  /\ \A k \in hits : \A j \in 1..Len(Heuristics) : Heuristics[j] = tag => j <= k

\* The API and the library markers match, the library file enumerated first,
\* and no CLI marker does.
C21_Witness ==
    /\ sgFirst.extracted
    /\ MatchingHeuristics(sgFiles) = {2, 6}
    /\ MarkerIn("library", sgFiles[1].path)
    /\ sgFirst.signals.project_type = "api"

\* C22: select_content returns the contents in snapshot order, each included
\* file whole except possibly the last, which is a prefix of its content, and
\* the returned string is never longer than max_length.
C22_SelectedContentWithinBudget ==
    scOut.called =>
        LET parts == scOut.selected.parts
        IN  /\ Len(parts) <= Len(scFiles)
            /\ \A i \in 1..Len(parts) :
                  IF i < Len(parts) THEN parts[i] = scFiles[i]
                  ELSE parts[i] = SubSeq(scFiles[i], 1, Len(parts[i]))
            /\ Len(scOut.selected.text) <= scOut.max_length

\* The level-1 headings of a content as the documentation counts them: the
\* lines that start with "# ", anywhere in the file.
HeadingLines(content) ==
    LET lines == str_split(content)
    IN  {i \in 1..Len(lines) : str_startswith(lines[i], Hash)}
ReadmeLike == {i \in 1..Len(pnFiles) : str_in(Readme, str_lower(pnFiles[i].name))}

\* C23: infer_project_name returns the text of the first level-1 heading of the
\* first README-like file of the snapshot, wherever in the file it stands, and
\* the root directory's name when that file has none or no such file exists.
C23_NameFromFirstReadmeHeading ==
    \A r \in 1..Len(pnRuns) :
        IF ReadmeLike = {} THEN pnRuns[r].project_name = pnRuns[r].root_name
        ELSE LET f == CHOOSE i \in ReadmeLike : \A j \in ReadmeLike : i <= j
                 lines == str_split(pnFiles[f].content)
                 heads == HeadingLines(pnFiles[f].content)
             IN  IF heads = {} THEN pnRuns[r].project_name = pnRuns[r].root_name
                 ELSE LET h == CHOOSE i \in heads : \A j \in heads : i <= j
                      IN  pnRuns[r].project_name = str_strip(SubSeq(lines[h], 3, Len(lines[h])))

\* C30: two runs on the same GitHub URL over identical content give the same
\* project_name, whatever the scratch clone directories were called.
C30_RemoteNameDeterministic ==
    \A r, s \in 1..Len(pnRuns) :
        pnRuns[r].source = "github" /\ pnRuns[s].source = "github"
            => pnRuns[r].project_name = pnRuns[s].project_name

\* The keywords the documentation names for each feature, in its order.
DocumentedKeywords ==
    << {<<"t", "e", "s", "t">>},
       {<<"d", "o", "c", "k", "e", "r">>},
       {<<"a", "p", "i">>, <<"e", "n", "d", "p", "o", "i", "n", "t">>},
       {<<"r", "e", "a", "c", "t">>, <<"v", "u", "e">>, <<"a", "n", "g", "u", "l", "a", "r">>},
       {<<"t", "y", "p", "e", "s", "c", "r", "i", "p", "t">>},
       {<<"a", "u", "t", "h">>},
       {<<"d", "a", "t", "a", "b", "a", "s", "e">>} >>
DocumentedHits ==
    LET text == str_lower(JoinWords(rbWords))
    IN  {i \in 1..7 : AnyIn(DocumentedKeywords[i], text)}
\* The same with the alternatives the tests also accept: spec for test, login
\* for auth, db for database.
AmendedKeywords ==
    [i \in 1..7 |->
        DocumentedKeywords[i] \cup
            (CASE i = 1 -> {<<"s", "p", "e", "c">>}
               [] i = 6 -> {<<"l", "o", "g", "i", "n">>}
               [] i = 7 -> {<<"d", "b">>}
               [] OTHER -> {})]
AmendedHits ==
    LET text == str_lower(JoinWords(rbWords))
    IN  {i \in 1..7 : AnyIn(AmendedKeywords[i], text)}
RECURSIVE FeaturesOfHits(_, _)
FeaturesOfHits(hits, i) ==
    IF i > 7 THEN <<>>
    ELSE (IF i \in hits THEN <<FeatureRules[i].feature>> ELSE <<>>) \o FeaturesOfHits(hits, i + 1)

\* C24: the rule-based engine's features are those whose keyword (test, docker,
\* api/endpoint, a frontend framework name, typescript, auth, database) occurs
\* in the content, in that order, cut to the first five; the four generic
\* phrases when no keyword occurs; never empty.
C24_FeaturesAreKeywordHits ==
    rbInsights # NotReasoned =>
        /\ rbInsights.key_features # <<>>
        /\ rbInsights.key_features =
              IF DocumentedHits = {} THEN DefaultFeatures
              ELSE FirstFive(FeaturesOfHits(DocumentedHits, 1))

\* C24 (amended): the same with the keyword alternatives counted: a feature is
\* listed when test or spec, docker, api or endpoint, react, vue or angular,
\* typescript, auth or login, database or db occurs in the lower-cased content.
C24_FeaturesAreAmendedKeywordHits ==
    rbInsights # NotReasoned =>
        /\ rbInsights.key_features # <<>>
        /\ rbInsights.key_features =
              IF AmendedHits = {} THEN DefaultFeatures
              ELSE FirstFive(FeaturesOfHits(AmendedHits, 1))
C24_Witness ==
    /\ rbInsights # NotReasoned
    /\ Cardinality(AmendedHits) = 7
    /\ Len(rbInsights.key_features) = 5
    /\ rbInsights.key_features[5] = "Type-safe development"

\* Directory names the documentation excludes: the listed names and the
\* egg-info directories.
EggInfoDirs == {"pkg.egg-info"}
BearsIgnoredName(dir) == dir \in IGNORE_DIRS \/ dir \in EggInfoDirs

\* C25: collect_files returns a readable regular file under the root if and
\* only if no directory on its path below the root bears an ignored name; the
\* names of the root, of its ancestors and of regular files exclude nothing.
C25_ExcludedByDirectoryNameOnly ==
    wkFiles.collected =>
        LET returned == {wkFiles.files[i].path : i \in 1..Len(wkFiles.files)}
        IN  \A i \in 1..Len(wkListing) :
                LET e == wkListing[i]
                    dirs == {e.rel[k] : k \in 1..(Len(e.rel) - 1)}
                IN  (e.is_file /\ e.readable) =>
                        ((wkRoot \o e.rel) \in returned
                            <=> ~ \E d \in dirs : BearsIgnoredName(d))

\* The stages of a run in the documented order, and the stages a trace went
\* through (building the engine object is not one of them).
StageOrder == <<"ingest", "signals", "enrich", "select", "reason", "generate", "save">>
StageRank(stage) == CHOOSE k \in 1..Len(StageOrder) : StageOrder[k] = stage
StagesOf(trace) ==
    LET IsStage(s) == s # "engine"
    IN  SelectSeq(trace, IsStage)
TimesIn(trace, stage) == Cardinality({i \in 1..Len(trace) : trace[i] = stage})

\* C26: an init or github run goes through ingestion, signal extraction,
\* optional enrichment, content selection, reasoning, document generation and
\* save in that order, each stage after the previous one and none twice; a run
\* that succeeds has called the reasoning engine exactly once.
C26_StagesInOrderOnce ==
    (cliOut # NoOut /\ cliArgs.command \in {"init", "github"}) =>
        LET stages == StagesOf(cliOut.trace)
        IN  /\ \A i \in 1..Len(stages) : stages[i] \in Range(StageOrder)
            /\ \A i, j \in 1..Len(stages) :
                  i < j => StageRank(stages[i]) < StageRank(stages[j])
            /\ \A i \in 1..Len(stages) : \A k \in 1..(StageRank(stages[i]) - 1) :
                  StageOrder[k] # "enrich" => TimesIn(stages, StageOrder[k]) = 1
            /\ cliOut.exit = 0 =>
                  /\ TimesIn(cliOut.trace, "reason") = 1
                  /\ stages[Len(stages)] = "save"
C26_Witness ==
    /\ cliOut # NoOut
    /\ cliArgs.command = "github"
    /\ cliArgs.co.enrich = "fails"
    /\ cliOut.exit = 0
    /\ cliOut.trace = <<"ingest", "signals", "enrich", "engine", "select", "reason",
                        "generate", "save">>

\* The provider choice a call resolves to: the name passed, or for auto what
\* detection or the setup menu returned; and the environment after that.
Resolved ==
    IF faArgs.provider = "auto"
      THEN detect_available_provider(faArgs.interactive, faArgs.environ,
                                     faArgs.installed, faArgs.answers)
      ELSE [provider |-> faArgs.provider, env |-> faArgs.environ]
KeyAvailable(variable) ==
    \/ Truthy(faArgs.api_key)
    \/ Truthy(Resolved.env[variable])
    \/ faArgs.interactive /\ faArgs.answers.key_entry = "typed"

\* C27: create_reasoning_engine returns the engine of the resolved provider
\* choice, however the choice was made: mock the fixed-template engine, simple
\* the rule-based engine, local the local-model engine (its package being
\* installed), openai and anthropic their wrapper when package and key are
\* available.
C27_EngineOfResolvedProvider ==
    faResult # NoResult =>
        /\ Resolved.provider = "mock" => faResult.engine = "MockReasoningEngine"
        /\ Resolved.provider = "simple" => faResult.engine = "SimpleLLMReasoningEngine"
        /\ (Resolved.provider = "local" /\ "transformers" \in faArgs.installed)
              => faResult.engine = "LocalLLMReasoningEngine"
        /\ (Resolved.provider = "openai" /\ "openai" \in faArgs.installed
                /\ KeyAvailable("OPENAI_API_KEY"))
              => faResult.engine = "OpenAIReasoningEngine"
        /\ (Resolved.provider = "anthropic" /\ "anthropic" \in faArgs.installed
                /\ KeyAvailable("ANTHROPIC_API_KEY"))
              => faResult.engine = "AnthropicReasoningEngine"

\* The calls made by init or github, and the credentials of each backend: its
\* own key option, its own environment variable, a key typed at its prompt.
FromCli == faArgs # NoArgs /\ "openai_key" \in DOMAIN faArgs
OpenAICredentials ==
    {faArgs.openai_key, faArgs.environ.OPENAI_API_KEY, "typed-key"} \ {None}
AnthropicCredentials ==
    {faArgs.anthropic_key, faArgs.environ.ANTHROPIC_API_KEY, "typed-key"} \ {None}

\* C28: in init and github the key an external backend's engine is built with
\* is a credential of that backend, never the other backend's key.
C28_KeyOfSameBackend ==
    (FromCli /\ faResult # NoResult) =>
        /\ faResult.engine = "OpenAIReasoningEngine"
              => faResult.api_key \in OpenAICredentials
        /\ faResult.engine = "AnthropicReasoningEngine"
              => faResult.api_key \in AnthropicCredentials

\* The same run with another outcome of the enrichment: the fetch succeeding
\* or failing, or no token at all so that the enrichment is skipped.
RerunWith(enrich, tokens) ==
    LET a == cliArgs
        co == [a.co EXCEPT !.enrich = enrich]
        tok == IF tokens THEN "arg-token" ELSE None
    IN  IF a.command = "init" THEN init(a.repo, tok, a.output, co, None)
        ELSE github(a.repo, tok, a.output, co, None)

\* C29: in init and github the outcome of the enrichment (succeeded, failed,
\* skipped) changes neither the document written nor whether the command
\* succeeds.
C29_EnrichmentChangesNothing ==
    (cliOut # NoOut /\ cliArgs.command \in {"init", "github"}) =>
        \A enrich \in {"ok", "fails"}, tokens \in BOOLEAN :
            LET other == RerunWith(enrich, tokens)
            IN  /\ other.exit = cliOut.exit
                /\ other.written = cliOut.written
                /\ other.document = cliOut.document
C29_Witness ==
    /\ cliOut # NoOut
    /\ cliArgs.command = "init"
    /\ cliArgs.repo = "github_url"
    /\ cliArgs.co.enrich = "fails"
    /\ "Warning: Could not fetch GitHub metadata" \in Range(cliOut.printed)
    /\ cliOut.written
    /\ cliOut.document = RerunWith("ok", TRUE).document
    /\ "GitHub metrics" \in Range(RerunWith("ok", TRUE).printed)

====
